---- MODULE Spec2Model ----
(***************************************************************************)
(* Event-delivery core of tall-affiliate-common: the Redis stream producer *)
(* (pkg/redis/stream_producer.go) and the consumer-group consumer          *)
(* (pkg/redis/stream_consumer.go), over a model of the broker commands     *)
(* they issue (XADD, XTRIM, XGROUP CREATE MKSTREAM, XREADGROUP ">", XACK).  *)
(***************************************************************************)
EXTENDS Integers, Sequences, FiniteSets, TLC

(* ------------------------------ bounds -------------------------------- *)

\* Entries appended to the stream the consumers read, in one behaviour.
MaxEntries == 2

\* Entries the producer's own commands append in one behaviour of the producer
\* specification.
MaxPublished == 3

\* Longest input slice handed to PublishBatch.
MaxBatchLen == 3

\* Largest batchSize (XREADGROUP COUNT) a ConsumeStream call is given.
MaxBatchSize == 2

\* Longest idle time a pending entry reaches (in units of the broker's clock).
MaxIdle == 2

\* Largest delivery count of a pending entry (each claim adds one delivery).
MaxDeliveries == 3

\* How far below and above the payload limit, and above zero, the byte
\* lengths handed to the payload guard go.
MaxMargin == 2

\* Largest maxRetries a WithRetry call is given.
MaxRetries == 4

(* ----------------------------- constants ------------------------------ *)

Nil == "nil"

\* Stream keys of the broker.  "" is a legal Redis key: only the producer's
\* precondition keeps it from being written.
StreamNames == {"s1", "s2"}
Keys == StreamNames \cup {""}

GroupNames == {"g1", "g2"}

Consumers == {"c1", "c2"}

\* The reply Redis gives XGROUP CREATE for an existing group, and the text
\* CreateConsumerGroup compares err.Error() with.
BusyGroupReply == "BUSYGROUP Consumer Group name already exists"
BusyGroupExpected == "BUSYGROUP Consumer Group name already exists"
NoGroupReply == "NOGROUP No such consumer group"
TransportError == "dial tcp: connection refused"
RedisNil == "redis: nil"

\* The outcomes the transport can give one broker command.
Outcomes == {"ok", "fail"}

(* ------------------------------ events -------------------------------- *)

\* events.Event values handed to the producer.  Payload is `any`: "map" stands
\* for a JSON-serializable value, "chan" for one json.Marshal rejects.
E1 == [ID |-> "e1", Type |-> "product.created", Payload |-> "map"]
EChan == [ID |-> "e2", Type |-> "product.updated", Payload |-> "chan"]
Events == {E1, EChan}
\* A nil *events.Event.
NilEvent == [nil |-> TRUE]
EventPtrs == Events \cup {NilEvent}

\* json.Marshal(event): the JSON text as a token sequence, or an error.
Marshal(event) ==
  IF event.Payload = "chan"
  THEN [err |-> "json: unsupported type", data |-> <<>>]
  ELSE [err |-> Nil,
        data |-> <<"{", "id", event.ID, "type", event.Type,
                   "payload", event.Payload, "}">>]

\* json.Unmarshal([]byte(eventData), &event)
Unmarshal(data) ==
  IF /\ Len(data) = 8
     /\ data[1] = "{" /\ data[2] = "id" /\ data[4] = "type"
     /\ data[6] = "payload" /\ data[8] = "}"
  THEN [err |-> Nil,
        event |-> [ID |-> data[3], Type |-> data[5], Payload |-> data[7]]]
  ELSE [err |-> "invalid character", event |-> NilEvent]

\* Field maps of entries written by clients other than the producer, as the
\* consumer tests do: a non-JSON "event" field, and no "event" field at all.
MalformedValues == [event |-> <<"invalid-json">>]
NoEventValues == [data |-> <<"test">>]
RawValues == {MalformedValues, NoEventValues}

(* ------------------------------- state -------------------------------- *)

VARIABLES
  streams,   \* broker: stream key -> sequence of entries [ID, Values]
  lastID,    \* broker: the last entry ID it generated
  groups,    \* broker: <<stream, group>> -> [exists, last, pel]
  self,      \* consumer -> the fields NewStreamConsumer fixed
  ret,       \* the last completed producer / registration call and its result;
             \* "none" while the caller is inside PublishBatch
  pc,        \* consumer -> position in ConsumeStream
  ctx,       \* consumer -> ctx.Err() of the ConsumeStream call
  args,      \* consumer -> streamName, groupName, batchSize of the call
  batch,     \* consumer -> messages returned by the last XReadGroup
  idx,       \* consumer -> index in batch of the message being processed
  hist,      \* consumer -> handler and ack events of the current batch
  result,    \* consumer -> value ConsumeStream returned
  reclaim,   \* consumer -> its ClaimStaleMessages call: position, locals, result
  CEToCode,  \* package events: the inverse table built when the package loads
  retry,     \* the WithRetry call: position, locals, invocations of fn, result
  invoked,   \* the <<stream, group, ID>> a ConsumeStream loop called the handler on
  pipe       \* the PublishBatch call in progress: the length of its input, the
             \* commands queued on its pipeline and the replies so far

vars == <<streams, lastID, groups, self, ret, pc, ctx, args, batch, idx, hist,
          result, reclaim, CEToCode, retry, invoked, pipe>>

\* The variables of package events and package database.
libVars == <<CEToCode, retry>>

brokerVars == <<streams, lastID, groups>>
loopVars == <<pc, ctx, args, batch, idx, hist, result>>

(* ------------------------------ broker -------------------------------- *)

EntryIDs(key) == {streams[key][i].ID : i \in 1..Len(streams[key])}

\* XADD key * field value: the entry the broker appends, with the ID it
\* generates itself (greater than every ID it generated before).
XAddEntry(strms, last, key, values) ==
  [strms EXCEPT ![key] = Append(@, [ID |-> last + 1, Values |-> values])]

\* XGROUP CREATE key group 0 MKSTREAM
XGroupCreateMkStream(grps, key, group) ==
  IF grps[<<key, group>>].exists
  THEN [err |-> BusyGroupReply, groups |-> grps]
  ELSE [err |-> Nil,
        groups |-> [grps EXCEPT ![<<key, group>>] =
                      [exists |-> TRUE, last |-> 0, pel |-> <<>>]]]

\* A group that was never created.
NoGroup == [exists |-> FALSE, last |-> 0, pel |-> <<>>]

\* The pending-entries list of a group: a sequence, in ID order, of
\* [ID, consumer, idle, deliveries].
PendingIDs(grps, key, group) ==
  {grps[<<key, group>>].pel[i].ID : i \in 1..Len(grps[<<key, group>>].pel)}

\* XREADGROUP that also delivers again what is pending in the group.
UndeliveredOrPending(strms, grps, key, group) ==
  SelectSeq(strms[key],
            LAMBDA e : \/ e.ID > grps[<<key, group>>].last
                       \/ e.ID \in PendingIDs(grps, key, group))

\* The entries of a stream XREADGROUP ">" delivers: the first `count` entries
\* with an ID above the group's last-delivered ID.
Undelivered(strms, grps, key, group) ==
  SelectSeq(strms[key], LAMBDA e : e.ID > grps[<<key, group>>].last)

Take(s, n) == IF Len(s) <= n THEN s ELSE SubSeq(s, 1, n)

\* XREADGROUP GROUP group consumer COUNT count STREAMS key >
XReadGroup(strms, grps, key, group, consumer, count) ==
  IF ~grps[<<key, group>>].exists
  THEN [err |-> NoGroupReply, messages |-> <<>>, groups |-> grps]
  ELSE LET msgs == Take(Undelivered(strms, grps, key, group), count)
       IN IF msgs = <<>>
          THEN [err |-> RedisNil, messages |-> <<>>, groups |-> grps]
          ELSE [err |-> Nil, messages |-> msgs,
                groups |-> [grps EXCEPT ![<<key, group>>] =
                   [exists |-> TRUE, last |-> msgs[Len(msgs)].ID,
                    pel |-> @.pel \o
                       [i \in 1..Len(msgs) |->
                          [ID |-> msgs[i].ID, consumer |-> consumer,
                           idle |-> 0, deliveries |-> 1]]]]]

\* XACK key group id: removes id from the group's pending list; acknowledging
\* an ID that is not pending, or in a group that does not exist, is no error.
XAck(grps, key, group, id) ==
  IF ~grps[<<key, group>>].exists THEN grps
  ELSE [grps EXCEPT ![<<key, group>>].pel = SelectSeq(@, LAMBDA p : p.ID # id)]

\* XPENDING that ignores the count and lists the whole pending list.
XPendingExtAll(grps, key, group, count) ==
  IF ~grps[<<key, group>>].exists
  THEN [err |-> NoGroupReply, pending |-> <<>>]
  ELSE [err |-> Nil, pending |-> grps[<<key, group>>].pel]

\* XPENDING key group - + count: the first `count` pending entries in ID
\* order, each with its owner, idle time and delivery count.
XPendingExt(grps, key, group, count) ==
  IF ~grps[<<key, group>>].exists
  THEN [err |-> NoGroupReply, pending |-> <<>>]
  ELSE [err |-> Nil, pending |-> Take(grps[<<key, group>>].pel, count)]

\* The entry of a stream with the given ID, as a sequence of zero or one
\* messages.
EntryByID(strms, key, id) == SelectSeq(strms[key], LAMBDA e : e.ID = id)

\* A claim that takes the entry off the pending list, as an acknowledgment
\* after the claim would.
XClaimRemove(strms, grps, key, group, consumer, minIdle, id) ==
  IF ~grps[<<key, group>>].exists
  THEN [err |-> NoGroupReply, messages |-> <<>>, groups |-> grps]
  ELSE LET pel == grps[<<key, group>>].pel
           hit == {i \in 1..Len(pel) : pel[i].ID = id /\ pel[i].idle >= minIdle}
       IN IF hit = {}
          THEN [err |-> Nil, messages |-> <<>>, groups |-> grps]
          ELSE [err |-> Nil, messages |-> EntryByID(strms, key, id),
                groups |-> [grps EXCEPT ![<<key, group>>].pel =
                   SelectSeq(pel, LAMBDA e : e.ID # id)]]

\* XCLAIM key group consumer min-idle-time id: a pending entry idle for at
\* least min-idle-time gets the new owner, idle time 0 and one more delivery,
\* and is returned; an entry that is not pending, or not idle long enough, is
\* left as it is and the reply is empty.
XClaim(strms, grps, key, group, consumer, minIdle, id) ==
  IF ~grps[<<key, group>>].exists
  THEN [err |-> NoGroupReply, messages |-> <<>>, groups |-> grps]
  ELSE LET pel == grps[<<key, group>>].pel
           hit == {i \in 1..Len(pel) : pel[i].ID = id /\ pel[i].idle >= minIdle}
       IN IF hit = {}
          THEN [err |-> Nil, messages |-> <<>>, groups |-> grps]
          ELSE [err |-> Nil, messages |-> EntryByID(strms, key, id),
                groups |-> [grps EXCEPT ![<<key, group>>].pel =
                   [i \in 1..Len(pel) |->
                      IF i \in hit
                      THEN [ID |-> id, consumer |-> consumer, idle |-> 0,
                            deliveries |-> pel[i].deliveries + 1]
                      ELSE pel[i]]]]

(* ----------------------------- producer ------------------------------- *)

\* The guards without the test of the stream name.
PublishEventPreconditionNoName(streamName, event) ==
  IF event = NilEvent THEN "event cannot be nil"
  ELSE IF Marshal(event).err # Nil THEN "failed to marshal event"
  ELSE Nil

\* PublishEvent's guards before any broker call: the error it returns, or Nil.
PublishEventPrecondition(streamName, event) ==
  IF streamName = "" THEN "stream name cannot be empty"
  ELSE IF event = NilEvent THEN "event cannot be nil"
  ELSE IF Marshal(event).err # Nil THEN "failed to marshal event"
  ELSE Nil

\* The field map PublishEvent and PublishBatch hand to XAdd.
XAddValues(event) == [event |-> Marshal(event).data]

\* How PublishEvent ends once XAdd answered: `returned` holds the values its
\* signature returns (a single error), `logged` the message ID it writes to the
\* debug log.
PublishEventReturn(xaddErr, messageID) ==
  IF xaddErr # Nil
  THEN [returned |-> [err |-> "failed to publish event to stream"], logged |-> 0]
  ELSE [returned |-> [err |-> Nil], logged |-> messageID]

PublishEvent(streamName, event) ==
  LET pre == PublishEventPrecondition(streamName, event) IN
  IF pre # Nil
  THEN /\ ret' = [op |-> "PublishEvent", stream |-> streamName, event |-> event,
                  returned |-> [err |-> pre], logged |-> 0, cmds |-> <<>>]
       /\ UNCHANGED <<streams, lastID>>
  ELSE /\ lastID < MaxPublished
       /\ \E outcome \in Outcomes :
            IF outcome = "ok"
            THEN /\ streams' = XAddEntry(streams, lastID, streamName, XAddValues(event))
                 /\ lastID' = lastID + 1
                 /\ ret' = [op |-> "PublishEvent", stream |-> streamName,
                            event |-> event, cmds |-> <<"XADD">>]
                           @@ PublishEventReturn(Nil, lastID + 1)
            ELSE /\ UNCHANGED <<streams, lastID>>
                 /\ ret' = [op |-> "PublishEvent", stream |-> streamName,
                            event |-> event, cmds |-> <<"XADD">>]
                           @@ PublishEventReturn(TransportError, 0)

\* The XAdd commands PublishBatch queues on the pipeline: one per event that is
\* neither nil nor unserializable, in input order.
QueuedValues(events) ==
  LET keep == SelectSeq(events, LAMBDA e : e # NilEvent /\ Marshal(e).err = Nil)
  IN [i \in 1..Len(keep) |-> XAddValues(keep[i])]

\* No PublishBatch call has a pipeline with the broker.
NoPipe == [pc |-> "idle", stream |-> "", given |-> 0, queued |-> <<>>,
           replies |-> <<>>]

\* The error of pipe.Exec is dropped and the positions of the commands that
\* succeeded are returned.
PublishBatchReturnSwallow(replies) ==
  LET good == SelectSeq(replies, LAMBDA r : r.err = Nil)
  IN [messageIDs |-> [i \in 1..Len(good) |-> good[i].val], err |-> Nil]

\* What PublishBatch returns once pipe.Exec answered: ([]string, error).  The
\* error of pipe.Exec is that of the first command that failed.
PublishBatchReturn(replies) ==
  LET failed == SelectSeq(replies, LAMBDA r : r.err # Nil)
      good == SelectSeq(replies, LAMBDA r : r.err = Nil)
  IN IF failed # <<>>
     THEN [messageIDs |-> <<>>, err |-> "failed to execute batch publish"]
     ELSE [messageIDs |-> [i \in 1..Len(good) |-> good[i].val], err |-> Nil]

\* PublishBatch up to pipe.Exec: the test of the stream name, and the loop that
\* queues one XAdd per usable event on a pipeline (client.Pipeline(), no
\* MULTI/EXEC).  Nothing has reached the broker yet.
PublishBatch(streamName, events) ==
  /\ IF streamName = ""
     THEN /\ ret' = [op |-> "PublishBatch", stream |-> streamName,
                     given |-> Len(events), messageIDs |-> <<>>,
                     err |-> "stream name cannot be empty",
                     queued |-> <<>>, appended |-> {}, cmds |-> <<>>,
                     replies |-> <<>>]
          /\ UNCHANGED pipe
     ELSE /\ pipe' = [pc |-> "exec", stream |-> streamName,
                      given |-> Len(events), queued |-> QueuedValues(events),
                      replies |-> <<>>]
          /\ ret' = [op |-> "none"]
  /\ UNCHANGED <<streams, lastID>>

\* pipe.Exec, one queued command: the broker runs the next XADD of the pipeline
\* as a command of its own, with its own outcome; a command that fails appends
\* nothing.  Commands of other clients run between two of these steps.
PipelineXAdd ==
  /\ pipe.pc = "exec"
  /\ Len(pipe.replies) < Len(pipe.queued)
  /\ lastID < MaxPublished
  /\ \E outcome \in Outcomes :
       IF outcome = "ok"
       THEN /\ streams' = XAddEntry(streams, lastID, pipe.stream,
                                    pipe.queued[Len(pipe.replies) + 1])
            /\ lastID' = lastID + 1
            /\ pipe' = [pipe EXCEPT !.replies =
                          Append(@, [err |-> Nil, val |-> lastID + 1])]
       ELSE /\ UNCHANGED <<streams, lastID>>
            /\ pipe' = [pipe EXCEPT !.replies =
                          Append(@, [err |-> TransportError, val |-> 0])]
  /\ UNCHANGED ret

\* pipe.Exec answers once every queued command has its reply (at once for an
\* empty pipeline), and PublishBatch returns.  `appended` is the set of entry IDs
\* the call's commands added to the stream.
PipelineExecReturn ==
  /\ pipe.pc = "exec"
  /\ Len(pipe.replies) = Len(pipe.queued)
  /\ ret' = [op |-> "PublishBatch", stream |-> pipe.stream,
             given |-> pipe.given, queued |-> pipe.queued,
             appended |-> {pipe.replies[i].val :
                             i \in {j \in 1..Len(pipe.replies) :
                                      pipe.replies[j].err = Nil}},
             cmds |-> [i \in 1..Len(pipe.queued) |-> "XADD"],
             replies |-> pipe.replies]
            @@ PublishBatchReturn(pipe.replies)
  /\ pipe' = NoPipe
  /\ UNCHANGED <<streams, lastID>>

\* XTRIM key MAXLEN maxLen: the broker keeps the newest maxLen entries of the
\* stream and evicts the older ones; the IDs it generates later are unaffected.
XTrimMaxLen(strms, key, maxLen) ==
  [strms EXCEPT ![key] =
     IF Len(@) <= maxLen THEN @ ELSE SubSeq(@, Len(@) - maxLen + 1, Len(@))]

\* TrimStream: XTrimMaxLen on the stream, its error returned as it is.
TrimStream(streamName, maxLen) ==
  /\ \E outcome \in Outcomes :
       IF outcome = "ok"
       THEN /\ streams' = XTrimMaxLen(streams, streamName, maxLen)
            /\ ret' = [op |-> "TrimStream", stream |-> streamName,
                       maxLen |-> maxLen, err |-> Nil, cmds |-> <<"XTRIM">>]
       ELSE /\ UNCHANGED streams
            /\ ret' = [op |-> "TrimStream", stream |-> streamName,
                       maxLen |-> maxLen, err |-> TransportError,
                       cmds |-> <<"XTRIM">>]
  /\ UNCHANGED lastID

\* A client other than the producer appends an entry that is not a serialized
\* event (client.XAdd in the consumer tests).
RawXAdd(key, values) ==
  /\ streams' = XAddEntry(streams, lastID, key, values)
  /\ lastID' = lastID + 1
  /\ UNCHANGED ret

(* ----------------------- consumer: registration ----------------------- *)

\* Every error of XGroupCreateMkStream is returned, BUSYGROUP included.
CreateConsumerGroupReturnStrict(err) ==
  IF err # Nil THEN "failed to create consumer group" ELSE Nil

\* CreateConsumerGroup's test of the error XGroupCreateMkStream gave it.
CreateConsumerGroupReturn(err) ==
  IF err # Nil /\ err # BusyGroupExpected
  THEN "failed to create consumer group"
  ELSE Nil

CreateConsumerGroup(c) ==
  \E outcome \in Outcomes :
    LET key == self[c].streamName
        group == self[c].groupName
        reply == IF outcome = "ok"
                 THEN XGroupCreateMkStream(groups, key, group)
                 ELSE [err |-> TransportError, groups |-> groups]
    IN /\ groups' = reply.groups
       /\ ret' = [op |-> "CreateConsumerGroup", stream |-> key, group |-> group,
                  existed |-> groups[<<key, group>>].exists,
                  reply |-> reply.err,
                  err |-> CreateConsumerGroupReturn(reply.err)]

(* ----------------------- consumer: ConsumeStream ---------------------- *)

Canceled == "context canceled"
DeadlineExceeded == "context deadline exceeded"

\* The caller invokes ConsumeStream on consumer c with a live context.
StartConsume(c, streamName, groupName, batchSize) ==
  /\ pc[c] \in {"idle", "returned"}
  /\ pc' = [pc EXCEPT ![c] = "select"]
  /\ ctx' = [ctx EXCEPT ![c] = Nil]
  /\ args' = [args EXCEPT ![c] = [streamName |-> streamName,
                                  groupName |-> groupName,
                                  batchSize |-> batchSize]]
  /\ batch' = [batch EXCEPT ![c] = <<>>]
  /\ idx' = [idx EXCEPT ![c] = 0]
  /\ hist' = [hist EXCEPT ![c] = <<>>]
  /\ result' = [result EXCEPT ![c] = Nil]
  /\ UNCHANGED <<brokerVars, self, libVars, invoked, pipe, reclaim, ret>>

\* The call's context is cancelled (by the caller, or by the handler through
\* a cancel function it holds) or its deadline passes.
Cancel(c, cause) ==
  /\ pc[c] \notin {"idle", "returned"}
  /\ ctx[c] = Nil
  /\ ctx' = [ctx EXCEPT ![c] = cause]
  /\ UNCHANGED <<brokerVars, self, libVars, invoked, pipe, reclaim, ret, pc, args, batch, idx, hist, result>>

\* A loop that never looks at ctx.Done().
SelectDoneNeverDone(c) ==
  /\ pc[c] = "select"
  /\ pc' = [pc EXCEPT ![c] = "read"]
  /\ UNCHANGED <<brokerVars, self, libVars, invoked, pipe, reclaim, ret, ctx, args, batch, idx, hist, result>>

\* Top of the loop: select { case <-ctx.Done(): return ctx.Err(); default: }
SelectDone(c) ==
  /\ pc[c] = "select"
  /\ IF ctx[c] # Nil
     THEN /\ pc' = [pc EXCEPT ![c] = "returned"]
          /\ result' = [result EXCEPT ![c] = ctx[c]]
     ELSE /\ pc' = [pc EXCEPT ![c] = "read"]
          /\ UNCHANGED result
  /\ UNCHANGED <<brokerVars, self, libVars, invoked, pipe, reclaim, ret, ctx, args, batch, idx, hist>>

\* A read error other than redis.Nil ends the loop.
AfterReadFatal(err) ==
  IF err = Nil THEN "process" ELSE IF err = RedisNil THEN "select" ELSE "returned"

\* A failed or empty read is retried at once, without the check of ctx.Done().
AfterReadRetry(err) == IF err = Nil THEN "process" ELSE "read"

\* Where the loop goes after XReadGroup returned err: "process" for a batch,
\* back to the top for redis.Nil (continue) and for any other error (log,
\* sleep pollInterval, continue).
AfterRead(err) == IF err = Nil THEN "process" ELSE "select"

\* The default branch: XReadGroup with the call's stream and group names and
\* the consumer's own consumer name.
ReadBatch(c) ==
  /\ pc[c] = "read"
  /\ \E outcome \in Outcomes :
       LET reply == IF outcome = "ok"
                    THEN XReadGroup(streams, groups, args[c].streamName,
                                    args[c].groupName, self[c].consumerName,
                                    args[c].batchSize)
                    ELSE [err |-> TransportError, messages |-> <<>>,
                          groups |-> groups]
       IN /\ groups' = reply.groups
          /\ batch' = [batch EXCEPT ![c] = reply.messages]
          /\ idx' = [idx EXCEPT ![c] = 1]
          /\ pc' = [pc EXCEPT ![c] = AfterRead(reply.err)]
          /\ hist' = [hist EXCEPT ![c] = IF reply.err = Nil THEN <<>> ELSE @]
  /\ UNCHANGED <<streams, lastID, self, libVars, invoked, pipe, reclaim, ret, ctx, args, result>>

\* An "event" field that does not unmarshal is handed on as an empty event.
ParseMessageLenient(msg) ==
  IF "event" \notin DOMAIN msg.Values
  THEN [err |-> "message does not contain event data", event |-> NilEvent]
  ELSE [err |-> Nil, event |-> Unmarshal(msg.Values.event).event]

\* processMessage up to the handler call: the event it hands to the handler,
\* or the error it returns without calling it.
ParseMessage(msg) ==
  IF "event" \notin DOMAIN msg.Values
  THEN [err |-> "message does not contain event data", event |-> NilEvent]
  ELSE LET u == Unmarshal(msg.Values.event)
       IN IF u.err # Nil
          THEN [err |-> "failed to unmarshal event", event |-> NilEvent]
          ELSE [err |-> Nil, event |-> u.event]

\* The handler's error is logged and the message acknowledged all the same.
AckAfterHandlerAlways(handlerErr) == TRUE

\* Whether processMessage goes on to AcknowledgeMessage after the handler
\* returned handlerErr.
AckAfterHandler(handlerErr) == handlerErr = Nil

\* The inner loops hand the same message to processMessage again.
AdvanceRepeat(c) ==
  /\ idx' = idx
  /\ pc' = [pc EXCEPT ![c] = "process"]

\* The inner loops move to the next message of the batch, or, after the last
\* one, back to the top of the outer loop.
Advance(c) ==
  /\ idx' = [idx EXCEPT ![c] = @ + 1]
  /\ pc' = [pc EXCEPT ![c] = IF idx[c] + 1 > Len(batch[c]) THEN "select"
                             ELSE "process"]

HandlerResults == {Nil, "handler failed"}

\* processMessage on batch[idx] up to and including the handler's return.
ProcessMessage(c) ==
  /\ pc[c] = "process"
  /\ LET msg == batch[c][idx[c]]
         parsed == ParseMessage(msg)
     IN IF parsed.err # Nil
        THEN /\ Advance(c)
             /\ UNCHANGED <<hist, invoked>>
        ELSE \E handlerErr \in HandlerResults :
               /\ hist' = [hist EXCEPT ![c] =
                    Append(@, [kind |-> "handler", ID |-> msg.ID,
                               err |-> handlerErr])]
               /\ invoked' = invoked \cup
                    {<<args[c].streamName, args[c].groupName, msg.ID>>}
               /\ IF AckAfterHandler(handlerErr)
                  THEN /\ pc' = [pc EXCEPT ![c] = "ack"]
                       /\ UNCHANGED idx
                  ELSE Advance(c)
  /\ UNCHANGED <<brokerVars, self, libVars, pipe, reclaim, ret, ctx, args, batch, result>>

\* The acknowledgment names another group of the stream.
AckTargetOtherGroup(c) == <<self[c].streamName, "g2">>

\* The acknowledgment names the stream and group the running call reads.
AckTargetAsRead(c) == <<args[c].streamName, args[c].groupName>>

\* The stream and group AcknowledgeMessage names in its XAck.
AckTarget(c) == <<self[c].streamName, self[c].groupName>>

\* processMessage's call of AcknowledgeMessage(ctx, msg.ID) and its return.
AckMessage(c) ==
  /\ pc[c] = "ack"
  /\ LET msg == batch[c][idx[c]] IN
     \E outcome \in Outcomes :
       /\ groups' = IF outcome = "ok"
                    THEN XAck(groups, AckTarget(c)[1], AckTarget(c)[2], msg.ID)
                    ELSE groups
       /\ hist' = [hist EXCEPT ![c] =
            Append(@, [kind |-> "ack", ID |-> msg.ID,
                       err |-> IF outcome = "ok" THEN Nil ELSE TransportError])]
  /\ Advance(c)
  /\ UNCHANGED <<streams, lastID, self, libVars, invoked, pipe, reclaim, ret, ctx, args, batch, result>>

(* --------------------- consumer: ClaimStaleMessages ------------------- *)

\* A consumer with no ClaimStaleMessages call in progress and no result yet.
\* pending, idx, minIdle and count are the locals of a call in progress;
\* claimed and err are what the call returns.
NoReclaim ==
  [pc |-> "idle", minIdle |-> 0, count |-> 0, pending |-> <<>>, idx |-> 0,
   claimed |-> <<>>, err |-> Nil]

\* The call returns (claimed, err); its locals are gone.
ClaimStaleReturn(claimed, err) ==
  [NoReclaim EXCEPT !.pc = "returned", !.claimed = claimed, !.err = err]

\* The fields of an XPendingExt item the range loop reads: msg.ID, msg.Idle.
PendingItems(pending) ==
  [i \in 1..Len(pending) |-> [ID |-> pending[i].ID, idle |-> pending[i].idle]]

\* ClaimStaleMessages up to the range loop: XPendingExt on the consumer's own
\* stream and group; its error ends the call with (nil, error).
ClaimStaleList(c, minIdleTime, count) ==
  /\ reclaim[c].pc \in {"idle", "returned"}
  /\ \E outcome \in Outcomes :
       LET reply == IF outcome = "ok"
                    THEN XPendingExt(groups, self[c].streamName,
                                     self[c].groupName, count)
                    ELSE [err |-> TransportError, pending |-> <<>>]
       IN reclaim' = [reclaim EXCEPT ![c] =
            IF reply.err # Nil
            THEN ClaimStaleReturn(<<>>, "failed to get pending messages")
            ELSE IF reply.pending = <<>>
            THEN ClaimStaleReturn(<<>>, Nil)
            ELSE [NoReclaim EXCEPT
                    !.pc = "claim", !.minIdle = minIdleTime, !.count = count,
                    !.pending = PendingItems(reply.pending), !.idx = 1]]
  /\ UNCHANGED <<brokerVars, self, libVars, invoked, pipe, ret, loopVars>>

\* An entry idle for exactly minIdleTime is passed over.
IsStaleStrict(idle, minIdleTime) == idle > minIdleTime

\* The test of the range loop: msg.Idle >= minIdleTime
IsStale(idle, minIdleTime) == idle >= minIdleTime

\* XCLAIM without a minimum idle time.
ClaimMinIdleNone(minIdleTime) == 0

\* The MinIdle ClaimStaleMessages hands to XClaim.
ClaimMinIdle(minIdleTime) == minIdleTime

\* The group name is passed where the consumer name belongs.
ClaimConsumerGroupName(c) == self[c].groupName

\* The Consumer ClaimStaleMessages hands to XClaim: the caller's own identity.
ClaimConsumer(c) == self[c].consumerName

\* A claim error ends the call with the error.
AfterClaimErrorFatal(r, claimed) ==
  ClaimStaleReturn(<<>>, "failed to claim message")

\* The range loop moves to the next listed entry with `claimed` collected so
\* far; after the last entry the call returns (claimed, nil).
ClaimStaleAdvance(r, claimed) ==
  IF r.idx + 1 > Len(r.pending)
  THEN ClaimStaleReturn(claimed, Nil)
  ELSE [r EXCEPT !.idx = @ + 1, !.claimed = claimed]

\* The range loop after XClaim returned an error for pending[idx]: the error
\* is logged and the loop continues.
AfterClaimError(r, claimed) == ClaimStaleAdvance(r, claimed)

\* One iteration of the range loop over the listed entries, on pending[idx],
\* when the transport gives the XClaim it may issue the given outcome.
ClaimStaleStepWith(c, outcome) ==
  /\ reclaim[c].pc = "claim"
  /\ \A i \in 1..Len(groups[AckTarget(c)].pel) :
       groups[AckTarget(c)].pel[i].deliveries < MaxDeliveries
  /\ LET r == reclaim[c]
         msg == r.pending[r.idx]
     IN IF ~IsStale(msg.idle, r.minIdle)
        THEN /\ reclaim' = [reclaim EXCEPT ![c] = ClaimStaleAdvance(r, r.claimed)]
             /\ UNCHANGED groups
        ELSE LET reply == IF outcome = "ok"
                          THEN XClaim(streams, groups, self[c].streamName,
                                      self[c].groupName, ClaimConsumer(c),
                                      ClaimMinIdle(r.minIdle), msg.ID)
                          ELSE [err |-> TransportError, messages |-> <<>>,
                                groups |-> groups]
             IN /\ groups' = reply.groups
                /\ reclaim' = [reclaim EXCEPT ![c] =
                     IF reply.err # Nil
                     THEN AfterClaimError(r, r.claimed)
                     ELSE ClaimStaleAdvance(r, r.claimed \o reply.messages)]
  /\ UNCHANGED <<streams, lastID, self, libVars, invoked, pipe, ret, loopVars>>

ClaimStaleStep(c) == \E outcome \in Outcomes : ClaimStaleStepWith(c, outcome)

\* Time passes on the broker: every pending entry has been idle one unit
\* longer.
Tick ==
  /\ \A sg \in DOMAIN groups :
       \A i \in 1..Len(groups[sg].pel) : groups[sg].pel[i].idle < MaxIdle
  /\ \E sg \in DOMAIN groups : groups[sg].pel # <<>>
  /\ groups' = [sg \in DOMAIN groups |->
                  [groups[sg] EXCEPT !.pel =
                     [i \in 1..Len(@) |-> [@[i] EXCEPT !.idle = @ + 1]]]]
  /\ UNCHANGED <<streams, lastID, self, libVars, invoked, pipe, ret, loopVars, reclaim>>

\* ReadMessages(ctx, count, blockTimeout): one XReadGroup ">" on the
\* consumer's own stream and group, without a handler.
ReadMessages(c, count) ==
  /\ \E outcome \in Outcomes :
       LET reply == IF outcome = "ok"
                    THEN XReadGroup(streams, groups, self[c].streamName,
                                    self[c].groupName, self[c].consumerName, count)
                    ELSE [err |-> TransportError, messages |-> <<>>,
                          groups |-> groups]
       IN /\ groups' = reply.groups
          /\ ret' = [op |-> "ReadMessages", consumer |-> c,
                     messages |-> reply.messages,
                     err |-> IF reply.err \in {Nil, RedisNil} THEN Nil
                             ELSE "failed to read messages"]
  /\ UNCHANGED <<streams, lastID, self, libVars, invoked, pipe, loopVars, reclaim>>

\* AcknowledgeMessage(ctx, messageID) called directly: XAck on the consumer's
\* own stream and group; its error is returned as it is.
AcknowledgeMessage(c, messageID) ==
  /\ \E outcome \in Outcomes :
       /\ groups' = IF outcome = "ok"
                    THEN XAck(groups, AckTarget(c)[1], AckTarget(c)[2], messageID)
                    ELSE groups
       /\ ret' = [op |-> "AcknowledgeMessage", consumer |-> c, ID |-> messageID,
                  stream |-> AckTarget(c)[1], group |-> AckTarget(c)[2],
                  err |-> IF outcome = "ok" THEN Nil ELSE TransportError]
  /\ UNCHANGED <<streams, lastID, self, libVars, invoked, pipe, loopVars, reclaim>>

(* ------------------------ events: event types ------------------------- *)

\* The event-type constants of events.go that NormalizeEventType, its tests
\* and the code table name, by their Go names, with the strings they stand
\* for.
EventTypes ==
  [Event_08A_ContentGenerationRequested |-> "08A_CONTENT_GENERATION_REQUESTED",
   Event_09A_ContentGenerationStarted |-> "09A_CONTENT_GENERATION_STARTED",
   Event_10A_ContentGenerated |-> "10A_CONTENT_GENERATED",
   Event_10B_ContentGenerationFailed |-> "10B_CONTENT_GENERATION_FAILED",
   Event_10D_ContentGenerationRetried |-> "content.generation.retried.v1",
   Event_00A_ScraperJobRequested |-> "00A_SCRAPER_JOB_REQUESTED",
   Event_02A_ProductValidated |-> "02A_PRODUCT_VALIDATED",
   Event_02B_ProductIgnored |-> "02B_PRODUCT_IGNORED",
   Event_02C_ProductReviewRequired |-> "02C_PRODUCT_REVIEW_REQUIRED",
   VariationEnrichmentRequested |-> "04B_VARIATION_ENRICHMENT_REQUESTED",
   Event_05D_EnrichmentRetry |-> "enrichment.retry.v1",
   Event_06_QualityAssessmentRequested |-> "quality.assessment.requested.v1",
   Event_07A_QualityAssessmentCompleted |-> "quality.assessment.completed.v1",
   Event_07B_QualityAssessmentFailed |-> "quality.assessment.failed.v1",
   Event_19_ProductDeleted |-> "product.deleted.v1",
   Event_18_ProductStatusChanged |-> "product.status.changed.v1",
   Event_17_ProductAvailabilityChanged |-> "17_PRODUCT_AVAILABILITY_CHANGED",
   Event_16A_ProductUpdated |-> "product.updated.v1",
   Event_16B_ProductUpdateFailed |-> "product.update_failed.v1",
   Event_15A_PriceUpdated |-> "price.updated.v1",
   Event_15B_PriceUpdateFailed |-> "price.update_failed.v1",
   Event_13_ProductReadyForPublication |-> "product.ready_for_publication.v1",
   Event_14A_PriceMonitoringScheduled |-> "price.monitoring.scheduled.v1",
   Event_14B_AvailabilityCheckScheduled |-> "product.availability_check.scheduled.v1",
   Event_14C_PeriodicUpdateScheduled |-> "product.periodic_update.scheduled.v1",
   Event_08B_ReviewsRequested |-> "reviews.requested.v1",
   Event_09B_ReviewsFetched |-> "reviews.fetched.v1",
   Event_10C_ReviewsProcessed |-> "reviews.processed.v1",
   Event_11A_ReviewsValidated |-> "reviews.validated.v1",
   Event_11B_ReviewsFetchFailed |-> "reviews.fetch_failed.v1",
   Event_12A_ReviewsStored |-> "reviews.stored.v1",
   Event_12B_ReviewsError |-> "reviews.error.v1",
   CATALOG_PRODUCT_ENRICHMENT_REQUESTED_V1 |-> "catalog.product.enrichment.requested.v1",
   CATALOG_PRODUCT_ENRICHMENT_COMPLETED_V1 |-> "catalog.product.enrichment.completed.v1",
   CATALOG_PRODUCT_ENRICHMENT_FAILED_V1 |-> "catalog.product.enrichment.failed.v1",
   PRODUCT_ENRICHMENT_REQUESTED_V1 |-> "product.enrichment.requested.v1",
   PRODUCT_ENRICHMENT_COMPLETED_V1 |-> "product.enrichment.completed.v1",
   PRODUCT_ENRICHMENT_FAILED_V1 |-> "product.enrichment.failed.v1",
   CatalogProductEnrichmentRequestedV1 |-> "catalog.product.enrichment.requested.v1",
   CatalogProductEnrichmentCompletedV1 |-> "catalog.product.enrichment.completed.v1",
   CatalogProductEnrichmentFailedV1 |-> "catalog.product.enrichment.failed.v1",
   ProductEnrichmentRequestedV1 |-> "product.enrichment.requested.v1",
   ProductEnrichmentCompletedV1 |-> "product.enrichment.completed.v1",
   ProductEnrichmentFailedV1 |-> "product.enrichment.failed.v1",
   ContentGenerationRequestedV1 |-> "content.generation.requested.v1",
   ContentGenerationStartedV1 |-> "content.generation.started.v1",
   ContentGeneratedV1 |-> "content.generated.v1",
   ContentGenerationFailedV1 |-> "content.generation.failed.v1",
   ContentGenerationRetriedV1 |-> "content.generation.retried.v1",
   ReviewsRequestedV1 |-> "reviews.requested.v1",
   ReviewsFetchedV1 |-> "reviews.fetched.v1",
   ReviewsProcessedV1 |-> "reviews.processed.v1",
   ReviewsValidatedV1 |-> "reviews.validated.v1",
   ReviewsFetchFailedV1 |-> "reviews.fetch_failed.v1",
   ReviewsStoredV1 |-> "reviews.stored.v1",
   ReviewsErrorV1 |-> "reviews.error.v1",
   CatalogProductDetectedV1 |-> "catalog.product.detected.v1",
   CatalogProductValidatedV1 |-> "catalog.product.validated.v1",
   CatalogProductIgnoredV1 |-> "catalog.product.ignored.v1",
   CatalogProductReviewRequiredV1 |-> "catalog.product.review_required.v1",
   PriceUpdatedV1 |-> "price.updated.v1",
   PriceUpdateFailedV1 |-> "price.update_failed.v1",
   ProductAvailabilityChangedV1 |-> "product.availability.changed.v1",
   ProductStatusChangedV1 |-> "product.status.changed.v1"]

\* The result of NormalizeEventType: the string returned and the bool.
Normalized(type) == [type |-> type, found |-> TRUE]

\* The default case returns the empty string.
UnmatchedEmpty(s) == [type |-> "", found |-> FALSE]

\* default: return s, false
Unmatched(s) == [type |-> s, found |-> FALSE]

NormalizeEventType(s) ==
  CASE s = "CONTENT_GENERATION_REQUESTED" -> Normalized(EventTypes.Event_08A_ContentGenerationRequested)
    [] s = "CONTENT_GENERATION_STARTED" -> Normalized(EventTypes.Event_09A_ContentGenerationStarted)
    [] s = "CONTENT_GENERATED" -> Normalized(EventTypes.Event_10A_ContentGenerated)
    [] s = "CONTENT_GENERATION_FAILED" -> Normalized(EventTypes.Event_10B_ContentGenerationFailed)
    [] s = "CONTENT_GENERATION_RETRIED" -> Normalized(EventTypes.Event_10D_ContentGenerationRetried)
    [] s = "SCRAPER_JOB_REQUESTED" -> Normalized(EventTypes.Event_00A_ScraperJobRequested)
    [] s = EventTypes.Event_00A_ScraperJobRequested -> Normalized(EventTypes.Event_00A_ScraperJobRequested)
    [] s = "PRODUCT_VALIDATED" -> Normalized(EventTypes.Event_02A_ProductValidated)
    [] s = "PRODUCT_IGNORED" -> Normalized(EventTypes.Event_02B_ProductIgnored)
    [] s = "PRODUCT_REVIEW_REQUIRED" -> Normalized(EventTypes.Event_02C_ProductReviewRequired)
    [] s = "04D_VARIANTS_ENRICHMENT_REQUESTED" -> Normalized(EventTypes.VariationEnrichmentRequested)
    [] s = "ENRICHMENT_RETRY" -> Normalized(EventTypes.Event_05D_EnrichmentRetry)
    [] s = "QUALITY_ASSESSMENT_REQUESTED" -> Normalized(EventTypes.Event_06_QualityAssessmentRequested)
    [] s = "QUALITY_ASSESSMENT_COMPLETED" -> Normalized(EventTypes.Event_07A_QualityAssessmentCompleted)
    [] s = "QUALITY_ASSESSMENT_FAILED" -> Normalized(EventTypes.Event_07B_QualityAssessmentFailed)
    [] s = "product.deleted.v1" -> Normalized(EventTypes.Event_19_ProductDeleted)
    [] s = "product.status.changed.v1" -> Normalized(EventTypes.Event_18_ProductStatusChanged)
    [] s = "product.availability.changed.v1" -> Normalized(EventTypes.Event_17_ProductAvailabilityChanged)
    [] s = "product.updated.v1" -> Normalized(EventTypes.Event_16A_ProductUpdated)
    [] s = "product.update_failed.v1" -> Normalized(EventTypes.Event_16B_ProductUpdateFailed)
    [] s = "price.updated.v1" -> Normalized(EventTypes.Event_15A_PriceUpdated)
    [] s = "price.update_failed.v1" -> Normalized(EventTypes.Event_15B_PriceUpdateFailed)
    [] s = "product.ready_for_publication.v1" -> Normalized(EventTypes.Event_13_ProductReadyForPublication)
    [] s = "price.monitoring.scheduled.v1" -> Normalized(EventTypes.Event_14A_PriceMonitoringScheduled)
    [] s = "product.availability_check.scheduled.v1" -> Normalized(EventTypes.Event_14B_AvailabilityCheckScheduled)
    [] s = "product.periodic_update.scheduled.v1" -> Normalized(EventTypes.Event_14C_PeriodicUpdateScheduled)
    [] s = "content.generation.requested.v1" -> Normalized(EventTypes.Event_08A_ContentGenerationRequested)
    [] s = "content.generation.started.v1" -> Normalized(EventTypes.Event_09A_ContentGenerationStarted)
    [] s = "content.generated.v1" -> Normalized(EventTypes.Event_10A_ContentGenerated)
    [] s = "content.generation.failed.v1" -> Normalized(EventTypes.Event_10B_ContentGenerationFailed)
    [] s = "content.generation.retried.v1" -> Normalized(EventTypes.Event_10D_ContentGenerationRetried)
    [] s = "reviews.requested.v1" -> Normalized(EventTypes.Event_08B_ReviewsRequested)
    [] s = "reviews.fetched.v1" -> Normalized(EventTypes.Event_09B_ReviewsFetched)
    [] s = "reviews.processed.v1" -> Normalized(EventTypes.Event_10C_ReviewsProcessed)
    [] s = "reviews.validated.v1" -> Normalized(EventTypes.Event_11A_ReviewsValidated)
    [] s = "reviews.fetch_failed.v1" -> Normalized(EventTypes.Event_11B_ReviewsFetchFailed)
    [] s = "reviews.stored.v1" -> Normalized(EventTypes.Event_12A_ReviewsStored)
    [] s = "reviews.error.v1" -> Normalized(EventTypes.Event_12B_ReviewsError)
    [] s = "quality.assessment.requested.v1" -> Normalized(EventTypes.Event_06_QualityAssessmentRequested)
    [] s = "quality.assessment.completed.v1" -> Normalized(EventTypes.Event_07A_QualityAssessmentCompleted)
    [] s = "quality.assessment.failed.v1" -> Normalized(EventTypes.Event_07B_QualityAssessmentFailed)
    [] s = "catalog.product.enrichment.requested.v1" -> Normalized(EventTypes.CATALOG_PRODUCT_ENRICHMENT_REQUESTED_V1)
    [] s = "catalog.product.enrichment.completed.v1" -> Normalized(EventTypes.CATALOG_PRODUCT_ENRICHMENT_COMPLETED_V1)
    [] s = "catalog.product.enrichment.failed.v1" -> Normalized(EventTypes.CATALOG_PRODUCT_ENRICHMENT_FAILED_V1)
    [] s = "product.enrichment.requested.v1" -> Normalized(EventTypes.PRODUCT_ENRICHMENT_REQUESTED_V1)
    [] s = "product.enrichment.completed.v1" -> Normalized(EventTypes.PRODUCT_ENRICHMENT_COMPLETED_V1)
    [] s = "product.enrichment.failed.v1" -> Normalized(EventTypes.PRODUCT_ENRICHMENT_FAILED_V1)
    [] OTHER -> Unmatched(s)

\* The strings the switch of NormalizeEventType has a case for.
RegisteredAliases ==
  {"CONTENT_GENERATION_REQUESTED", "CONTENT_GENERATION_STARTED",
   "CONTENT_GENERATED", "CONTENT_GENERATION_FAILED",
   "CONTENT_GENERATION_RETRIED", "SCRAPER_JOB_REQUESTED",
   EventTypes.Event_00A_ScraperJobRequested, "PRODUCT_VALIDATED",
   "PRODUCT_IGNORED", "PRODUCT_REVIEW_REQUIRED",
   "04D_VARIANTS_ENRICHMENT_REQUESTED", "ENRICHMENT_RETRY",
   "QUALITY_ASSESSMENT_REQUESTED", "QUALITY_ASSESSMENT_COMPLETED",
   "QUALITY_ASSESSMENT_FAILED", "product.deleted.v1",
   "product.status.changed.v1", "product.availability.changed.v1",
   "product.updated.v1", "product.update_failed.v1",
   "price.updated.v1", "price.update_failed.v1",
   "product.ready_for_publication.v1", "price.monitoring.scheduled.v1",
   "product.availability_check.scheduled.v1", "product.periodic_update.scheduled.v1",
   "content.generation.requested.v1", "content.generation.started.v1",
   "content.generated.v1", "content.generation.failed.v1",
   "content.generation.retried.v1", "reviews.requested.v1",
   "reviews.fetched.v1", "reviews.processed.v1",
   "reviews.validated.v1", "reviews.fetch_failed.v1",
   "reviews.stored.v1", "reviews.error.v1",
   "quality.assessment.requested.v1", "quality.assessment.completed.v1",
   "quality.assessment.failed.v1", "catalog.product.enrichment.requested.v1",
   "catalog.product.enrichment.completed.v1", "catalog.product.enrichment.failed.v1",
   "product.enrichment.requested.v1", "product.enrichment.completed.v1",
   "product.enrichment.failed.v1"}

\* The table the tests assert: <<input, expected, found>>.
ReferenceTable ==
  {<<"SCRAPER_JOB_REQUESTED", EventTypes.Event_00A_ScraperJobRequested, TRUE>>,
   <<EventTypes.Event_00A_ScraperJobRequested, EventTypes.Event_00A_ScraperJobRequested, TRUE>>,
   <<"catalog.product.enrichment.requested.v1", EventTypes.CatalogProductEnrichmentRequestedV1, TRUE>>,
   <<"catalog.product.enrichment.completed.v1", EventTypes.CatalogProductEnrichmentCompletedV1, TRUE>>,
   <<"catalog.product.enrichment.failed.v1", EventTypes.CatalogProductEnrichmentFailedV1, TRUE>>,
   <<"product.enrichment.requested.v1", EventTypes.ProductEnrichmentRequestedV1, TRUE>>,
   <<"product.enrichment.completed.v1", EventTypes.ProductEnrichmentCompletedV1, TRUE>>,
   <<"product.enrichment.failed.v1", EventTypes.ProductEnrichmentFailedV1, TRUE>>,
   <<"unknown.event.type", "unknown.event.type", FALSE>>,
   <<"CONTENT_GENERATION_REQUESTED", EventTypes.Event_08A_ContentGenerationRequested, TRUE>>,
   <<"CONTENT_GENERATION_STARTED", EventTypes.Event_09A_ContentGenerationStarted, TRUE>>,
   <<"CONTENT_GENERATED", EventTypes.Event_10A_ContentGenerated, TRUE>>,
   <<"CONTENT_GENERATION_FAILED", EventTypes.Event_10B_ContentGenerationFailed, TRUE>>,
   <<"CONTENT_GENERATION_RETRIED", EventTypes.Event_10D_ContentGenerationRetried, TRUE>>,
   <<"REVIEWS_REQUESTED", EventTypes.Event_08B_ReviewsRequested, TRUE>>,
   <<"REVIEWS_FETCHED", EventTypes.Event_09B_ReviewsFetched, TRUE>>,
   <<"REVIEWS_PROCESSED", EventTypes.Event_10C_ReviewsProcessed, TRUE>>,
   <<"REVIEWS_VALIDATED", EventTypes.Event_11A_ReviewsValidated, TRUE>>,
   <<"REVIEWS_FETCH_FAILED", EventTypes.Event_11B_ReviewsFetchFailed, TRUE>>,
   <<"REVIEWS_STORED", EventTypes.Event_12A_ReviewsStored, TRUE>>,
   <<"REVIEWS_ERROR", EventTypes.Event_12B_ReviewsError, TRUE>>,
   <<"content.generation.requested.v1", EventTypes.ContentGenerationRequestedV1, TRUE>>,
   <<"content.generation.started.v1", EventTypes.ContentGenerationStartedV1, TRUE>>,
   <<"content.generated.v1", EventTypes.ContentGeneratedV1, TRUE>>,
   <<"content.generation.failed.v1", EventTypes.ContentGenerationFailedV1, TRUE>>,
   <<"content.generation.retried.v1", EventTypes.ContentGenerationRetriedV1, TRUE>>,
   <<"reviews.requested.v1", EventTypes.ReviewsRequestedV1, TRUE>>,
   <<"reviews.fetched.v1", EventTypes.ReviewsFetchedV1, TRUE>>,
   <<"reviews.processed.v1", EventTypes.ReviewsProcessedV1, TRUE>>,
   <<"reviews.validated.v1", EventTypes.ReviewsValidatedV1, TRUE>>,
   <<"reviews.fetch_failed.v1", EventTypes.ReviewsFetchFailedV1, TRUE>>,
   <<"reviews.stored.v1", EventTypes.ReviewsStoredV1, TRUE>>,
   <<"reviews.error.v1", EventTypes.ReviewsErrorV1, TRUE>>,
   <<"UNKNOWN_CONTENT_EVENT", "UNKNOWN_CONTENT_EVENT", FALSE>>}

\* The strings NormalizeEventType is given: the registered aliases, the inputs
\* of the tests, the strings it returns, and the empty string.

\* A call NormalizeEventType(s).  prev is empty.
CallNormalizeEventType ==
  /\ \E s \in RegisteredAliases
               \cup {row[1] : row \in ReferenceTable}
               \cup {NormalizeEventType(t).type : t \in RegisteredAliases}
               \cup {""} :
       ret' = [op |-> "NormalizeEventType", s |-> s,
               type |-> NormalizeEventType(s).type,
               found |-> NormalizeEventType(s).found, prev |-> <<>>]
  /\ UNCHANGED <<brokerVars, self, libVars, invoked, pipe, loopVars, reclaim>>

\* The string the last call returned is normalized again.  prev is the input
\* and the bool of that call.
CallNormalizeAgain ==
  /\ ret.op = "NormalizeEventType"
  /\ ret' = [op |-> "NormalizeEventType", s |-> ret.type,
             type |-> NormalizeEventType(ret.type).type,
             found |-> NormalizeEventType(ret.type).found,
             prev |-> <<ret.s, ret.found>>]
  /\ UNCHANGED <<brokerVars, self, libVars, invoked, pipe, loopVars, reclaim>>

NormalizeNext ==
  \/ CallNormalizeEventType
  \/ CallNormalizeAgain

(* ------------------------ events: code table -------------------------- *)

\* The entries of the CodeToCE map literal, in the order of the source.
CodeToCEEntries ==
  << <<"00A_SCRAPER_JOB_REQUESTED", "scraper.job.requested.v1">>,
     <<"01_PRODUCT_DETECTED", EventTypes.CatalogProductDetectedV1>>,
     <<"02A_PRODUCT_VALIDATED", EventTypes.CatalogProductValidatedV1>>,
     <<"02B_PRODUCT_IGNORED", EventTypes.CatalogProductIgnoredV1>>,
     <<"02C_PRODUCT_REVIEW_REQUIRED", EventTypes.CatalogProductReviewRequiredV1>>,
     <<"03A_PA_API_ENRICHMENT_ORCHESTRATION_STARTED", EventTypes.CatalogProductEnrichmentRequestedV1>>,
     <<"03B_PA_API_ENRICHMENT_ORCHESTRATION_ENRICHED", EventTypes.CatalogProductEnrichmentCompletedV1>>,
     <<"03C_PA_API_ENRICHMENT_ORCHESTRATION_FAILED", EventTypes.CatalogProductEnrichmentFailedV1>>,
     <<"03D_PA_API_ENRICHMENT_ORCHESTRATION_COMPLETED", EventTypes.CatalogProductEnrichmentCompletedV1>>,
     <<"04A_CONTENT_GENERATION_REQUESTED", EventTypes.ContentGenerationRequestedV1>>,
     <<"04B_CONTENT_GENERATION_STARTED", EventTypes.ContentGenerationStartedV1>>,
     <<"04C_CONTENT_GENERATED_COMPLETED", EventTypes.ContentGeneratedV1>>,
     <<"04D_CONTENT_GENERATION_FAILED", EventTypes.ContentGenerationFailedV1>>,
     <<"04E_CONTENT_GENERATION_RETRIED", EventTypes.ContentGenerationRetriedV1>>,
     <<"05A_PORTAL_PUBLICATION_REQUESTED", "portal.publication.requested.v1">>,
     <<"05B_PORTAL_PUBLICATION_COMPLETED", "portal.publication.completed.v1">>,
     <<"05C_PORTAL_PUBLICATION_FAILED", "portal.publication.failed.v1">>,
     <<"MON_CONTENT_HEALTH_CHECK_SCHEDULED", "monitoring.content.health_check.scheduled.v1">>,
     <<"MON_CONTENT_HEALTH_CHECK_COMPLETED", "monitoring.content.health_check.completed.v1">>,
     <<"MON_CONTENT_HEALTH_CHECK_FAILED", "monitoring.content.health_check.failed.v1">>,
     <<"MON_CONTENT_VISIBILITY_ALERT", "monitoring.content.visibility.alert.v1">>,
     <<"MON_PRICE_UPDATE_SUCCEEDED", EventTypes.PriceUpdatedV1>>,
     <<"MON_PRICE_UPDATE_FAILED", EventTypes.PriceUpdateFailedV1>>,
     <<"MON_PRICE_UPDATE_SKIPPED", "price.update.skipped.v1">>,
     <<"MON_PRICE_CHANGE_DETECTED", "price.change.detected.v1">>,
     <<"MON_PRICE_HISTORY_RECORDED", "price.history.recorded.v1">>,
     <<"MON_PRICE_HISTORY_RECORD_FAILED", "price.history.record_failed.v1">>,
     <<"MON_PRICE_TREND_ANALYSIS_COMPLETED", "price.trend_analysis.completed.v1">>,
     <<"MON_PRICE_ALERT_TRIGGERED", "price.alert.triggered.v1">>,
     <<"MON_PRICE_ALERT_RESOLVED", "price.alert.resolved.v1">>,
     <<"MON_PRODUCT_DATA_REFRESH_SCHEDULED", "catalog.product.refresh.scheduled.v1">>,
     <<"MON_PRODUCT_DATA_REFRESH_COMPLETED", "catalog.product.refresh.completed.v1">>,
     <<"MON_PRODUCT_DATA_REFRESH_FAILED", "catalog.product.refresh.failed.v1">>,
     <<"MON_PRODUCT_AVAILABILITY_CHANGED", EventTypes.ProductAvailabilityChangedV1>>,
     <<"MON_PRODUCT_STATUS_CHANGED", EventTypes.ProductStatusChangedV1>>,
     <<"MON_PRODUCT_ARCHIVED", "product.archived.v1">>,
     <<"MON_SOCIAL_PROOF_UPDATED", "social_proof.updated.v1">>,
     <<"MON_SOCIAL_PROOF_UPDATE_FAILED", "social_proof.update_failed.v1">>,
     <<"MON_COMPLIANCE_REVIEW_REQUIRED", "compliance.review.required.v1">>,
     <<"MON_COMPLIANCE_REVIEW_PASSED", "compliance.review.passed.v1">>,
     <<"MON_COMPLIANCE_REVIEW_FAILED", "compliance.review.failed.v1">>,
     <<"MON_SUPPLY_CHAIN_ALERT_RAISED", "supply_chain.alert.raised.v1">>,
     <<"MON_SUPPLY_CHAIN_ALERT_RESOLVED", "supply_chain.alert.resolved.v1">>>>

Codes == {CodeToCEEntries[i][1] : i \in DOMAIN CodeToCEEntries}

\* var CodeToCE = map[string]string{...}
CodeToCE ==
  [code \in Codes |->
     CodeToCEEntries[CHOOSE i \in DOMAIN CodeToCEEntries :
                       CodeToCEEntries[i][1] = code][2]]

\* m[k] = v
MapPut(m, k, v) == (k :> v) @@ m

\* A loop body that enters the pair under the code instead of the type.
InsertUnderCode(m, k, v) == IF v \in DOMAIN m THEN m ELSE MapPut(m, k, v)

\* if _, exists := m[v]; !exists { m[v] = k }
Insert(m, k, v) == IF v \in DOMAIN m THEN m ELSE MapPut(m, v, k)

\* The iterations lo..hi of `for k, v := range CodeToCE`, the keys visited in
\* `order`, starting from m: one iteration is the loop body; a longer run is
\* its first half and then, from the map that half leaves, its second half.
RECURSIVE RangeLoop(_, _, _, _)
RangeLoop(m, order, lo, hi) ==
  IF lo > hi THEN m
  ELSE IF lo = hi THEN Insert(m, order[lo], CodeToCE[order[lo]])
  ELSE LET half == RangeLoop(m, order, lo, (lo + hi) \div 2)
       IN IF half = m
          THEN RangeLoop(m, order, (lo + hi) \div 2 + 1, hi)
          ELSE RangeLoop(half, order, (lo + hi) \div 2 + 1, hi)

\* for k, v := range CodeToCE { ... }; return m
BuildCEToCode(m, order) == RangeLoop(m, order, 1, Len(order))

\* The order of a range over a Go map is not specified.  An entry of the
\* inverse table depends only on which of the codes sharing its type the loop
\* visits first: the source order and its reverse visit every two codes in
\* both relative orders.
RangeOrders ==
  LET n == Len(CodeToCEEntries)
  IN {[i \in 1..n |-> CodeToCEEntries[i][1]],
      [i \in 1..n |-> CodeToCEEntries[n + 1 - i][1]]}

\* The tables the package initializer can leave in CEToCode.
InverseTables == {BuildCEToCode(<<>>, order) : order \in RangeOrders}

\* GetCETypeForCode(code): v, ok := CodeToCE[code]
GetCETypeForCode(code) ==
  IF code \in DOMAIN CodeToCE THEN [v |-> CodeToCE[code], ok |-> TRUE]
  ELSE [v |-> "", ok |-> FALSE]

\* GetCodeForCEType(ceType): v, ok := CEToCode[ceType]
GetCodeForCEType(ceType) ==
  IF ceType \in DOMAIN CEToCode THEN [v |-> CEToCode[ceType], ok |-> TRUE]
  ELSE [v |-> "", ok |-> FALSE]

\* A call GetCETypeForCode(code).
CallGetCETypeForCode ==
  /\ \E code \in Codes \cup {"99_UNKNOWN_CODE", ""} :
       ret' = [op |-> "GetCETypeForCode", code |-> code,
               v |-> GetCETypeForCode(code).v,
               ok |-> GetCETypeForCode(code).ok]
  /\ UNCHANGED <<brokerVars, self, libVars, invoked, pipe, loopVars, reclaim>>

\* A call GetCodeForCEType(ceType).  prev is empty.
CallGetCodeForCEType ==
  /\ \E ceType \in {CodeToCE[code] : code \in Codes}
                      \cup {"unknown.event.type", ""} :
       ret' = [op |-> "GetCodeForCEType", ceType |-> ceType,
               v |-> GetCodeForCEType(ceType).v,
               ok |-> GetCodeForCEType(ceType).ok, prev |-> <<>>]
  /\ UNCHANGED <<brokerVars, self, libVars, invoked, pipe, loopVars, reclaim>>

\* The type the last GetCETypeForCode call returned is looked up in the
\* inverse table.  prev is the code and the bool of that call.
CallGetCodeForReturned ==
  /\ ret.op = "GetCETypeForCode"
  /\ ret' = [op |-> "GetCodeForCEType", ceType |-> ret.v,
             v |-> GetCodeForCEType(ret.v).v,
             ok |-> GetCodeForCEType(ret.v).ok,
             prev |-> <<ret.code, ret.ok>>]
  /\ UNCHANGED <<brokerVars, self, libVars, invoked, pipe, loopVars, reclaim>>

CodesNext ==
  \/ CallGetCETypeForCode
  \/ CallGetCodeForCEType
  \/ CallGetCodeForReturned

(* ------------------------- database: WithRetry ------------------------ *)

\* Errors fn returns.
FnErrors ==
  {"assert.AnError general error for testing", "sql: no rows in result set"}

\* No WithRetry call has been made.
NoRetry == [pc |-> "idle", maxRetries |-> 0, delay |-> 0, i |-> 0, err |-> Nil,
            calls |-> <<>>, slept |-> 0, result |-> <<>>]

\* fmt.Errorf("failed after %d retries: %w", maxRetries, err)
RetriesError(maxRetries, err) == <<"failed after %d retries: %w", maxRetries, err>>

\* WithRetry is called: var err error; i := 0.
WithRetryCall(maxRetries, delay) ==
  /\ retry.pc \in {"idle", "returned"}
  /\ retry' = [NoRetry EXCEPT !.pc = "loop", !.maxRetries = maxRetries,
                              !.delay = delay]
  /\ UNCHANGED <<brokerVars, self, CEToCode, invoked, pipe, ret, loopVars, reclaim>>

\* i < maxRetries-1: a failed invocation that is not the last is followed by
\* time.Sleep(delay).
SleepsAfter(i, maxRetries) == i < maxRetries - 1

\* The loop goes on while i <= maxRetries.
LoopContinuesInclusive(i, maxRetries) == i <= maxRetries

\* The loop condition i < maxRetries.
LoopContinues(i, maxRetries) == i < maxRetries

\* One evaluation of the loop condition of WithRetry and, where it holds, one
\* iteration: fn is invoked; nil ends the call with nil; an error is kept, the
\* call sleeps unless this was the last iteration, and i is incremented.
\* Where it does not hold the call returns the wrapped last error.
WithRetryStep ==
  /\ retry.pc = "loop"
  /\ IF ~LoopContinues(retry.i, retry.maxRetries)
     THEN retry' = [retry EXCEPT !.pc = "returned",
                      !.result = RetriesError(retry.maxRetries, retry.err)]
     ELSE \E fnErr \in FnErrors \cup {Nil} :
            retry' = IF fnErr = Nil
                     THEN [retry EXCEPT !.pc = "returned", !.err = Nil,
                             !.calls = Append(@, Nil), !.result = <<>>]
                     ELSE [retry EXCEPT !.err = fnErr,
                             !.calls = Append(@, fnErr),
                             !.slept = IF SleepsAfter(retry.i, retry.maxRetries)
                                       THEN @ + 1 ELSE @,
                             !.i = @ + 1]
  /\ UNCHANGED <<brokerVars, self, CEToCode, invoked, pipe, ret, loopVars, reclaim>>

\* The delays WithRetry is given, in milliseconds.

RetryNext ==
  \/ \E maxRetries \in 0..MaxRetries, delay \in {0, 1} :
       WithRetryCall(maxRetries, delay)
  \/ WithRetryStep

(* --------------------------- specification ---------------------------- *)

\* NewStreamConsumer(client, streamName, groupName, consumerName, logger)
NewStreamConsumer(streamName, groupName, consumerName) ==
  [streamName |-> streamName, groupName |-> groupName,
   consumerName |-> consumerName]

\* The maxLen handed to XTRIM: evict everything, keep the newest entry.
TrimLens == {0, 1}

BatchInputs == UNION {[1..n -> EventPtrs] : n \in 0..MaxBatchLen}

\* The consumers that call ConsumeStream, and the arguments they call it with.
Runners == {"c1"}
ConsumeKeys == {"s1"}

InitBase ==
  /\ streams = [k \in Keys |-> <<>>]
  /\ lastID = 0
  /\ self = [c \in Consumers |->
               NewStreamConsumer("s1", IF c = "c1" THEN "g1" ELSE "g2", c)]
  /\ ret = [op |-> "none"]
  /\ pc = [c \in Consumers |-> "idle"]
  /\ ctx = [c \in Consumers |-> Nil]
  /\ args = [c \in Consumers |-> [streamName |-> "", groupName |-> "",
                                  batchSize |-> 0]]
  /\ batch = [c \in Consumers |-> <<>>]
  /\ idx = [c \in Consumers |-> 0]
  /\ hist = [c \in Consumers |-> <<>>]
  /\ result = [c \in Consumers |-> Nil]
  /\ reclaim = [c \in Consumers |-> NoReclaim]
  /\ CEToCode = <<>>
  /\ retry = NoRetry
  /\ invoked = {}
  /\ pipe = NoPipe

NoGroups == [sg \in Keys \X GroupNames |-> NoGroup]

\* The groups earlier CreateConsumerGroup calls left on the broker: any of the
\* consumers' own groups, each with cursor 0 and nothing pending.
GroupsAtStart ==
  {[sg \in Keys \X GroupNames |->
      IF sg \in created
      THEN XGroupCreateMkStream(NoGroups, sg[1], sg[2]).groups[sg]
      ELSE NoGroup] :
   created \in SUBSET {<<self[c].streamName, self[c].groupName>> : c \in Consumers}}

Init ==
  /\ InitBase
  /\ groups \in GroupsAtStart

\* Entries reach the stream the consumers read: serialized events as the
\* producer writes them, and the entries other clients write.  No client
\* trims the stream here (TrimStream acts in the producer and the delivery
\* specifications).
Feed ==
  /\ lastID < MaxEntries
  /\ \E v \in RawValues \cup {XAddValues(E1)} : RawXAdd("s1", v)
  /\ UNCHANGED <<groups, self, libVars, invoked, pipe, reclaim, loopVars>>

Consume ==
  \E c \in Runners :
    \/ \E s \in ConsumeKeys, g \in GroupNames, n \in 1..MaxBatchSize :
         StartConsume(c, s, g, n)
    \/ \E cause \in {Canceled, DeadlineExceeded} : Cancel(c, cause)
    \/ SelectDone(c)
    \/ ReadBatch(c)
    \/ ProcessMessage(c)
    \/ AckMessage(c)

Next == Feed \/ Consume

Spec == Init /\ [][Next]_vars

(* ----------------------- producer specification ----------------------- *)

\* One caller of the producer, on every stream key and every input, next to
\* the other clients of the broker.  The caller makes one call at a time.
ProducerCall ==
  /\ pipe.pc = "idle"
  /\ \/ /\ \E s \in Keys, e \in EventPtrs : PublishEvent(s, e)
        /\ UNCHANGED pipe
     \/ \E s \in Keys, es \in BatchInputs : PublishBatch(s, es)
     \/ /\ \E s \in Keys, n \in TrimLens : TrimStream(s, n)
        /\ UNCHANGED pipe

\* Commands other clients send the broker while the caller is between or inside
\* its calls: XADD of an entry of their own, XTRIM.
OtherClient ==
  /\ \/ /\ lastID < MaxPublished
        /\ RawXAdd("s1", NoEventValues)
     \/ /\ \E n \in TrimLens : streams' = XTrimMaxLen(streams, "s1", n)
        /\ UNCHANGED <<lastID, ret>>
  /\ UNCHANGED pipe

ProducerNext ==
  /\ \/ ProducerCall
     \/ PipelineXAdd
     \/ PipelineExecReturn
     \/ OtherClient
  /\ UNCHANGED <<groups, self, libVars, invoked, reclaim, loopVars>>

ProducerInit ==
  /\ InitBase
  /\ groups = NoGroups

ProducerSpec == ProducerInit /\ [][ProducerNext]_vars

(* --------------------- registration specification --------------------- *)

\* Group registration next to a consumer that reads its own stream and group,
\* so that CreateConsumerGroup meets groups with a cursor and pending entries.
RegistrationNext ==
  \/ Feed
  \/ /\ \E c \in Consumers : CreateConsumerGroup(c)
     /\ UNCHANGED <<streams, lastID, self, libVars, invoked, pipe, reclaim, loopVars>>
  \/ \E c \in Runners :
       \/ /\ pc[c] = "idle"
          /\ \E n \in 1..MaxBatchSize :
               StartConsume(c, self[c].streamName, self[c].groupName, n)
       \/ SelectDone(c)
       \/ ReadBatch(c)
       \/ ProcessMessage(c)
       \/ AckMessage(c)

RegistrationSpec == ProducerInit /\ [][RegistrationNext]_vars

(* ------------------------ liveness specification ---------------------- *)

\* Every broker call and every handler invocation returns: a consumer that can
\* take its next step in ConsumeStream eventually takes it.
Fairness ==
  \A c \in Runners :
    /\ WF_vars(SelectDone(c))
    /\ WF_vars(ReadBatch(c))
    /\ WF_vars(ProcessMessage(c))
    /\ WF_vars(AckMessage(c))

\* One ConsumeStream call per consumer, from its start to its return.
LiveNext ==
  \/ Feed
  \/ \E c \in Runners :
       \/ /\ pc[c] = "idle"
          /\ \E g \in GroupNames, n \in 1..MaxBatchSize :
               StartConsume(c, self[c].streamName, g, n)
       \/ \E cause \in {Canceled, DeadlineExceeded} : Cancel(c, cause)
       \/ SelectDone(c)
       \/ ReadBatch(c)
       \/ ProcessMessage(c)
       \/ AckMessage(c)

LiveSpec == Init /\ [][LiveNext]_vars /\ Fairness

(* ------------------------ reclaim specification ----------------------- *)

\* Two consumer identities of one group on one stream.
ReclaimInit ==
  /\ streams = [k \in Keys |-> <<>>]
  /\ lastID = 0
  /\ self = [c \in Consumers |-> NewStreamConsumer("s1", "g1", c)]
  /\ groups \in {NoGroups, XGroupCreateMkStream(NoGroups, "s1", "g1").groups}
  /\ ret = [op |-> "none"]
  /\ pc = [c \in Consumers |-> "idle"]
  /\ ctx = [c \in Consumers |-> Nil]
  /\ args = [c \in Consumers |-> [streamName |-> "", groupName |-> "",
                                  batchSize |-> 0]]
  /\ batch = [c \in Consumers |-> <<>>]
  /\ idx = [c \in Consumers |-> 0]
  /\ hist = [c \in Consumers |-> <<>>]
  /\ result = [c \in Consumers |-> Nil]
  /\ reclaim = [c \in Consumers |-> NoReclaim]
  /\ CEToCode = <<>>
  /\ retry = NoRetry
  /\ invoked = {}
  /\ pipe = NoPipe

\* The consumer that reads and acknowledges, and the one that reclaims.
Readers == {"c1"}
Reclaimers == {"c2"}

\* The thresholds ClaimStaleMessages is called with: none, and one unit of
\* the broker's clock.
MinIdleTimes == {0, 1}

\* The producer's entries reach the stream.
Produce ==
  /\ lastID < MaxEntries
  /\ RawXAdd("s1", XAddValues(E1))
  /\ UNCHANGED <<groups, self, libVars, invoked, pipe, loopVars, reclaim>>

\* One consumer reads entries one at a time while the other reclaims, one
\* broker command at a time, and time passes.
ReclaimNext ==
  \/ Produce
  \/ Tick
  \/ \E c \in Readers : ReadMessages(c, 1)
  \/ \E c \in Reclaimers, m \in MinIdleTimes, n \in {1, MaxBatchSize} :
       ClaimStaleList(c, m, n)
  \/ \E c \in Reclaimers : ClaimStaleStep(c)

ReclaimSpec == ReclaimInit /\ [][ReclaimNext]_vars

\* The life of a pending entry: delivered by a read, reclaimed, acknowledged
\* by either consumer, while time passes.
PendingNext ==
  \/ Produce
  \/ Tick
  \/ \E c \in Readers : ReadMessages(c, MaxBatchSize)
  \/ \E c \in Consumers, id \in 1..MaxEntries : AcknowledgeMessage(c, id)
  \/ \E c \in Reclaimers : ClaimStaleList(c, 0, 1)
  \/ \E c \in Reclaimers : ClaimStaleStep(c)

PendingSpec == ReclaimInit /\ [][PendingNext]_vars

\* Both consumers reclaim the entry the stream holds, with the same or with
\* different thresholds, their broker commands interleaved.
RaceNext ==
  \/ (streams["s1"] = <<>> /\ Produce)
  \/ Tick
  \/ \E c \in Readers : ReadMessages(c, MaxBatchSize)
  \/ \E c \in Consumers, m \in MinIdleTimes :
       ClaimStaleList(c, m, MaxBatchSize)
  \/ \E c \in Consumers : ClaimStaleStep(c)

RaceSpec == ReclaimInit /\ [][RaceNext]_vars

(* ----------------------- ownership specification ---------------------- *)

\* One consumer runs ConsumeStream on its own stream and group while the
\* other reads and reclaims in the same group, both after the entry the
\* stream holds, and time passes.
OwnershipNext ==
  \/ (streams["s1"] = <<>> /\ Produce)
  \/ Tick
  \/ \E c \in Readers :
       \/ /\ pc[c] = "idle"
          /\ StartConsume(c, self[c].streamName, self[c].groupName, MaxBatchSize)
       \/ SelectDone(c)
       \/ ReadBatch(c)
       \/ ProcessMessage(c)
       \/ AckMessage(c)
  \/ \E c \in Reclaimers : ReadMessages(c, 1)
  \/ \E c \in Reclaimers, m \in MinIdleTimes :
       ClaimStaleList(c, m, MaxBatchSize)
  \/ \E c \in Reclaimers : ClaimStaleStep(c)

OwnershipSpec == ReclaimInit /\ [][OwnershipNext]_vars

(* ----------------------- delivery specification ----------------------- *)

\* Entries are appended before and after the groups are registered and the
\* producer's TrimStream trims the stream, while one consumer of each of the
\* two groups on the stream polls without being cancelled.
DeliveryNext ==
  \/ Produce
  \/ /\ \E n \in TrimLens : TrimStream("s1", n)
     /\ UNCHANGED <<groups, self, libVars, invoked, pipe, loopVars, reclaim>>
  \/ /\ \E c \in Consumers : CreateConsumerGroup(c)
     /\ UNCHANGED <<streams, lastID, self, libVars, invoked, pipe, reclaim, loopVars>>
  \/ \E c \in Consumers :
       \/ /\ pc[c] = "idle"
          /\ \E n \in 1..MaxBatchSize :
               StartConsume(c, self[c].streamName, self[c].groupName, n)
       \/ SelectDone(c)
       \/ ReadBatch(c)
       \/ ProcessMessage(c)
       \/ AckMessage(c)

\* The consumers keep polling (each loop takes every step it can take) and the
\* broker keeps answering: a read that can deliver entries is not failed by
\* the transport for ever.
DeliveryFairness ==
  \A c \in Consumers :
    /\ WF_vars(SelectDone(c))
    /\ WF_vars(ReadBatch(c))
    /\ SF_vars(ReadBatch(c) /\ batch'[c] # <<>>)
    /\ WF_vars(ProcessMessage(c))
    /\ WF_vars(AckMessage(c))

DeliverySpec == ProducerInit /\ [][DeliveryNext]_vars /\ DeliveryFairness

(* --------------------------- payload guard ---------------------------- *)

\* Byte strings, by their content.  Xs(n) is n bytes 'x' (Xs(0) is the empty
\* string, strings.Repeat("x", n) otherwise: not JSON).  The others are JSON
\* texts as json.Marshal writes them, without white space: JString(s, pad) is
\* the string literal of s followed by pad 'x' characters, JNumber(v) the
\* decimal digits of v, JNull the text null, and JObject(name, age) the
\* object {"name":<name>,"age":<age>}, where JMissing stands for a value that
\* is not there, as in {"name":"John","age":}.
Xs(n) == [t |-> "xs", n |-> n]
JString(s, pad) == [t |-> "str", s |-> s, pad |-> pad]
JNumber(v) == [t |-> "num", v |-> v]
JNull == [t |-> "null"]
JMissing == [t |-> "missing"]
JObject(name, age) == [t |-> "obj", name |-> name, age |-> age]

RECURSIVE Digits(_)
Digits(v) == IF v < 10 THEN 1 ELSE 1 + Digits(v \div 10)

\* len() of a byte string that is not an object.
ValueLen(d) ==
  CASE d.t = "xs" -> d.n
    [] d.t = "str" -> Len("\"") + Len(d.s) + d.pad + Len("\"")
    [] d.t = "num" -> Digits(d.v)
    [] d.t = "null" -> Len("null")
    [] d.t = "missing" -> 0

\* len() of a byte string.
ByteLen(d) ==
  IF d.t = "obj"
  THEN Len("{\"name\":") + ValueLen(d.name) + Len(",\"age\":")
         + ValueLen(d.age) + Len("}")
  ELSE ValueLen(d)

\* The syntax check json.Unmarshal makes of the whole input before it decodes
\* anything.
ValidJSON(d) ==
  IF d.t = "obj"
  THEN d.name.t \in {"str", "num", "null"} /\ d.age.t \in {"str", "num", "null"}
  ELSE d.t \in {"str", "num", "null"}

\* Go values handed to MarshalPayload and targets handed to UnmarshalPayload:
\* nil, a string, a channel, and struct{Name string `json:"name"`; Age int
\* `json:"age"`}.  A Go string is s followed by pad 'x' characters.
GoString(s, pad) == [s |-> s, pad |-> pad]
GoNil == [t |-> "nil"]
GoStringValue(s, pad) == [t |-> "string", v |-> GoString(s, pad)]
GoChan == [t |-> "chan"]
TestStruct(name, age) == [t |-> "struct", Name |-> name, Age |-> age]

SyntaxError == "*json.SyntaxError"
UnmarshalTypeError == "*json.UnmarshalTypeError"
UnsupportedTypeError == "json: unsupported type: chan int"

\* json.Marshal.
JsonMarshal(v) ==
  CASE v.t = "string" -> [data |-> JString(v.v.s, v.v.pad), err |-> Nil]
    [] v.t = "struct" ->
         [data |-> JObject(JString(v.Name.s, v.Name.pad), JNumber(v.Age)),
          err |-> Nil]
    [] v.t = "chan" -> [data |-> Xs(0), err |-> UnsupportedTypeError]

\* json.Unmarshal into a *TestStruct: a text that is not valid JSON is
\* rejected before anything is decoded; in a valid object each member is
\* decoded in turn, a member of the wrong type is skipped and the first such
\* mismatch is the error returned after the rest has been decoded; null
\* changes nothing.
JsonUnmarshal(d, target) ==
  IF ~ValidJSON(d) THEN [target |-> target, err |-> SyntaxError]
  ELSE IF d.t = "null" THEN [target |-> target, err |-> Nil]
  ELSE IF d.t # "obj" THEN [target |-> target, err |-> UnmarshalTypeError]
  ELSE [target |->
          [target EXCEPT
             !.Name = IF d.name.t = "str"
                      THEN GoString(d.name.s, d.name.pad) ELSE @,
             !.Age = IF d.age.t = "num" THEN d.age.v ELSE @],
        err |-> IF d.name.t = "num" \/ d.age.t = "str"
                THEN UnmarshalTypeError ELSE Nil]

MaxPayloadSize == 16384

\* A *PayloadError: Err is the text of the wrapped error, as its format and
\* arguments.  NoError is the nil error, NoData the nil json.RawMessage.
PayloadError(operation, err) == [Operation |-> operation, Err |-> err]
NoError == [Operation |-> "nil", Err |-> <<>>]
NoData == [t |-> "nil"]

\* fmt.Errorf("payload size %d bytes exceeds maximum %d bytes", n, MaxPayloadSize)
SizeError(n) ==
  <<"payload size %d bytes exceeds maximum %d bytes", n, MaxPayloadSize>>

\* The limit is one byte lower.
ExceedsLimitInclusive(n) == n >= MaxPayloadSize

\* len(data) > MaxPayloadSize
ExceedsLimit(n) == n > MaxPayloadSize

MarshalPayload(payload) ==
  IF payload = GoNil THEN [data |-> JNull, err |-> NoError]
  ELSE LET m == JsonMarshal(payload)
       IN IF m.err # Nil
          THEN [data |-> NoData, err |-> PayloadError("marshal", <<m.err>>)]
          ELSE IF ExceedsLimit(ByteLen(m.data))
          THEN [data |-> NoData,
                err |-> PayloadError("validation", SizeError(ByteLen(m.data)))]
          ELSE [data |-> m.data, err |-> NoError]

\* The error UnmarshalPayload returns for json.Unmarshal's err.
UnmarshalPayloadError(err) ==
  IF err # Nil THEN PayloadError("unmarshal", <<err>>) ELSE NoError

UnmarshalPayload(payload, target) ==
  IF ByteLen(payload) = 0
  THEN [target |-> target,
        err |-> PayloadError("unmarshal", <<"empty payload">>)]
  ELSE LET u == JsonUnmarshal(payload, target)
       IN [target |-> u.target, err |-> UnmarshalPayloadError(u.err)]

ValidatePayloadSize(payload) ==
  IF ExceedsLimit(ByteLen(payload))
  THEN PayloadError("validation", SizeError(ByteLen(payload)))
  ELSE NoError

\* json.Unmarshal into a *json.RawMessage fails only on invalid JSON.
IsValidJSON(payload) == ValidJSON(payload)

ConvertStringToRawMessage(jsonStr) ==
  IF ByteLen(jsonStr) = 0 THEN [data |-> JNull, err |-> NoError]
  ELSE IF ~ValidJSON(jsonStr)
  THEN [data |-> NoData,
        err |-> PayloadError("conversion",
                             <<"invalid JSON string: %v", SyntaxError>>)]
  ELSE IF ExceedsLimit(ByteLen(jsonStr))
  THEN [data |-> NoData,
        err |-> PayloadError("validation", SizeError(ByteLen(jsonStr)))]
  ELSE [data |-> jsonStr, err |-> NoError]

ConvertBytesToRawMessage(data) ==
  IF ByteLen(data) = 0 THEN [data |-> JNull, err |-> NoError]
  ELSE IF ~ValidJSON(data)
  THEN [data |-> NoData,
        err |-> PayloadError("conversion",
                             <<"invalid JSON bytes: %v", SyntaxError>>)]
  ELSE IF ExceedsLimit(ByteLen(data))
  THEN [data |-> NoData,
        err |-> PayloadError("validation", SizeError(ByteLen(data)))]
  ELSE [data |-> data, err |-> NoError]

(* ---------------------- payload guard specification ------------------- *)

\* Byte lengths the guard is given: the shortest ones and those around the
\* limit.
Lengths ==
  (0..MaxMargin) \cup ((MaxPayloadSize - MaxMargin)..(MaxPayloadSize + MaxMargin))

\* The member values of the objects the guard is given.
NameValues ==
  {JString("John", 0), JNumber(7), JNull, JMissing}
    \cup {JString("John", n - ByteLen(JObject(JString("John", 0), JNumber(30)))) :
            n \in {m \in Lengths : m >= MaxPayloadSize - MaxMargin}}
AgeValues == {JNumber(30), JString("x", 0), JMissing}

\* The byte strings the guard is given.
RawInputs ==
  {Xs(n) : n \in Lengths}
    \cup {JString("", n - ByteLen(JString("", 0))) :
            n \in {m \in Lengths : m >= ByteLen(JString("", 0))}}
    \cup {JNull, JNumber(30)}
    \cup {JObject(name, age) : name \in NameValues, age \in AgeValues}

\* The values MarshalPayload is given.
GoValues ==
  {GoNil, GoChan, TestStruct(GoString("John", 0), 30)}
    \cup {GoStringValue("", n - ByteLen(JString("", 0))) :
            n \in {m \in Lengths : m >= ByteLen(JString("", 0))}}
    \cup {TestStruct(GoString("John", n -
                       ByteLen(JObject(JString("John", 0), JNumber(30)))), 30) :
            n \in {m \in Lengths : m >= MaxPayloadSize - MaxMargin}}

\* The targets UnmarshalPayload is given: a zero TestStruct and one with
\* both fields set.
Targets == {TestStruct(GoString("", 0), 0), TestStruct(GoString("Old", 0), 1)}

CallMarshalPayload ==
  /\ \E payload \in GoValues :
       ret' = [op |-> "MarshalPayload", payload |-> payload,
               data |-> MarshalPayload(payload).data,
               err |-> MarshalPayload(payload).err]
  /\ UNCHANGED <<brokerVars, self, libVars, invoked, pipe, loopVars, reclaim>>

CallUnmarshalPayload ==
  /\ \E payload \in RawInputs, target \in Targets :
       ret' = [op |-> "UnmarshalPayload", payload |-> payload,
               before |-> target,
               target |-> UnmarshalPayload(payload, target).target,
               err |-> UnmarshalPayload(payload, target).err]
  /\ UNCHANGED <<brokerVars, self, libVars, invoked, pipe, loopVars, reclaim>>

CallValidatePayloadSize ==
  /\ \E payload \in RawInputs :
       ret' = [op |-> "ValidatePayloadSize", payload |-> payload,
               err |-> ValidatePayloadSize(payload)]
  /\ UNCHANGED <<brokerVars, self, libVars, invoked, pipe, loopVars, reclaim>>

CallIsValidJSON ==
  /\ \E payload \in RawInputs :
       ret' = [op |-> "IsValidJSON", payload |-> payload,
               ok |-> IsValidJSON(payload)]
  /\ UNCHANGED <<brokerVars, self, libVars, invoked, pipe, loopVars, reclaim>>

CallConvertStringToRawMessage ==
  /\ \E jsonStr \in RawInputs :
       ret' = [op |-> "ConvertStringToRawMessage", payload |-> jsonStr,
               data |-> ConvertStringToRawMessage(jsonStr).data,
               err |-> ConvertStringToRawMessage(jsonStr).err]
  /\ UNCHANGED <<brokerVars, self, libVars, invoked, pipe, loopVars, reclaim>>

CallConvertBytesToRawMessage ==
  /\ \E data \in RawInputs :
       ret' = [op |-> "ConvertBytesToRawMessage", payload |-> data,
               data |-> ConvertBytesToRawMessage(data).data,
               err |-> ConvertBytesToRawMessage(data).err]
  /\ UNCHANGED <<brokerVars, self, libVars, invoked, pipe, loopVars, reclaim>>

PayloadNext ==
  \/ CallMarshalPayload
  \/ CallUnmarshalPayload
  \/ CallValidatePayloadSize
  \/ CallIsValidJSON
  \/ CallConvertStringToRawMessage
  \/ CallConvertBytesToRawMessage

PayloadSpec == ProducerInit /\ [][PayloadNext]_vars

(* ------------------------ retry specification ------------------------ *)

RetrySpec == ProducerInit /\ [][RetryNext]_vars

(* --------------------- normalization specification ------------------- *)

NormalizeSpec == ProducerInit /\ [][NormalizeNext]_vars

(* ------------------------ code table specification -------------------- *)

\* The state after package events is loaded: CEToCode holds one of the
\* tables its initializer can build.
CodesInit ==
  /\ streams = [k \in Keys |-> <<>>]
  /\ lastID = 0
  /\ groups = NoGroups
  /\ self = [c \in Consumers |->
               NewStreamConsumer("s1", IF c = "c1" THEN "g1" ELSE "g2", c)]
  /\ ret = [op |-> "none"]
  /\ pc = [c \in Consumers |-> "idle"]
  /\ ctx = [c \in Consumers |-> Nil]
  /\ args = [c \in Consumers |-> [streamName |-> "", groupName |-> "",
                                  batchSize |-> 0]]
  /\ batch = [c \in Consumers |-> <<>>]
  /\ idx = [c \in Consumers |-> 0]
  /\ hist = [c \in Consumers |-> <<>>]
  /\ result = [c \in Consumers |-> Nil]
  /\ reclaim = [c \in Consumers |-> NoReclaim]
  /\ CEToCode \in InverseTables
  /\ retry = NoRetry
  /\ invoked = {}
  /\ pipe = NoPipe

CodesSpec == CodesInit /\ [][CodesNext]_vars

(* --------------------- shared group specification -------------------- *)

\* Two consumers constructed for the same stream and group both run
\* ConsumeStream on it while entries are appended, one with every batch size
\* and one entry by entry, and the latter reclaims what is pending.
SharedNext ==
  \/ Produce
  \/ \E c \in Consumers :
       \/ /\ pc[c] = "idle"
          /\ \E n \in IF c \in Readers THEN 1..MaxBatchSize ELSE {1} :
               StartConsume(c, self[c].streamName, self[c].groupName, n)
       \/ SelectDone(c)
       \/ ReadBatch(c)
       \/ ProcessMessage(c)
       \/ AckMessage(c)
  \/ \E c \in Reclaimers : ClaimStaleList(c, 0, MaxBatchSize)
  \/ \E c \in Reclaimers : ClaimStaleStepWith(c, "ok")

SharedSpec == ReclaimInit /\ [][SharedNext]_vars

(* ------------------------------ claims -------------------------------- *)

\* The entry carries a string "event" field holding a well-formed event.
Deserializable(msg) ==
  /\ "event" \in DOMAIN msg.Values
  /\ Unmarshal(msg.Values.event).err = Nil

\* The poll cycle of c has processed its whole batch and is back at the top of
\* the loop.
CycleDone(c) == pc[c] = "select" /\ batch[c] # <<>>

Handled(c, id) ==
  \E k \in 1..Len(hist[c]) : hist[c][k].kind = "handler" /\ hist[c][k].ID = id

HandlerFailed(c, id) ==
  \E k \in 1..Len(hist[c]) :
    hist[c][k].kind = "handler" /\ hist[c][k].ID = id /\ hist[c][k].err # Nil

HandlerSucceeded(c, id) ==
  \E k \in 1..Len(hist[c]) :
    hist[c][k].kind = "handler" /\ hist[c][k].ID = id /\ hist[c][k].err = Nil

AckIssued(c, id) ==
  \E k \in 1..Len(hist[c]) : hist[c][k].kind = "ack" /\ hist[c][k].ID = id

\* The pending list of the group the running call reads from.
ReadPending(c) == PendingIDs(groups, args[c].streamName, args[c].groupName)

BatchIDs(c) == {batch[c][i].ID : i \in 1..Len(batch[c])}

\* C1: ConsumeStream issues an ack for entry M only directly after a handler
\* invocation on M that returned no error, and a successful handler return on M
\* is followed by the ack of M before any other entry reaches the handler.
C1_AckOnlyAfterHandlerSuccess ==
  \A c \in Runners :
    /\ \A k \in 1..Len(hist[c]) :
         /\ hist[c][k].kind = "ack" =>
              /\ k > 1
              /\ hist[c][k - 1].kind = "handler"
              /\ hist[c][k - 1].ID = hist[c][k].ID
              /\ hist[c][k - 1].err = Nil
         /\ (hist[c][k].kind = "handler" /\ hist[c][k].err = Nil
               /\ k < Len(hist[c])) =>
              /\ hist[c][k + 1].kind = "ack"
              /\ hist[c][k + 1].ID = hist[c][k].ID
    /\ pc[c] = "ack" =>
         /\ hist[c] # <<>>
         /\ hist[c][Len(hist[c])] =
              [kind |-> "handler", ID |-> batch[c][idx[c]].ID, err |-> Nil]

\* C1 witness: an entry was handled and acked, and then the next entry of the
\* batch was handed to the handler.
C1_Witness ==
  \E c \in Runners :
    /\ Len(hist[c]) >= 3
    /\ hist[c][1].kind = "handler" /\ hist[c][1].err = Nil
    /\ hist[c][2].kind = "ack" /\ hist[c][2].ID = hist[c][1].ID
    /\ hist[c][3].kind = "handler" /\ hist[c][3].ID # hist[c][1].ID

\* C2 as stated: after the poll cycle an entry whose handler failed was not
\* acked and is pending, every parsable entry of the batch reached the handler,
\* and every sibling whose handler succeeded is absent from the pending list.
C2_Original ==
  \A c \in Runners : \A m \in BatchIDs(c) :
    (CycleDone(c) /\ HandlerFailed(c, m)) =>
      /\ ~AckIssued(c, m)
      /\ m \in ReadPending(c)
      /\ \A i \in 1..Len(batch[c]) :
           Deserializable(batch[c][i]) => Handled(c, batch[c][i].ID)
      /\ \A sib \in BatchIDs(c) :
           HandlerSucceeded(c, sib) => sib \notin ReadPending(c)

\* The entries of stream key that cannot be deserialized into an Event.
Unparsable(key) ==
  {streams[key][i].ID : i \in {j \in 1..Len(streams[key]) :
                                 ~Deserializable(streams[key][j])}}

\* C3: an entry that cannot be deserialized never reaches the handler, stays
\* pending in every group it was delivered to however many polls follow, and
\* does not stop the loop: ConsumeStream has not returned on its account and
\* the parsable entries after it in the batch reach the handler.
C3_UnparsableSkipped ==
  /\ \A key \in StreamNames, g \in GroupNames : \A m \in Unparsable(key) :
       (groups[<<key, g>>].exists /\ m <= groups[<<key, g>>].last)
         => m \in PendingIDs(groups, key, g)
  /\ \A c \in Runners :
       /\ \A i \in 1..Len(batch[c]) :
            ~Deserializable(batch[c][i])
              => ~Handled(c, batch[c][i].ID) /\ ~AckIssued(c, batch[c][i].ID)
       /\ CycleDone(c) =>
            \A i \in 1..Len(batch[c]) :
              Deserializable(batch[c][i]) => Handled(c, batch[c][i].ID)
       /\ (pc[c] = "returned") => ctx[c] # Nil

\* C3 witness: a finished cycle whose batch began with an unparsable entry,
\* still pending, followed by an entry the handler received.
C3_Witness ==
  \E c \in Runners :
    /\ CycleDone(c)
    /\ Len(batch[c]) >= 2
    /\ ~Deserializable(batch[c][1])
    /\ batch[c][1].ID \in ReadPending(c)
    /\ Handled(c, batch[c][2].ID)

\* C4: ConsumeStream has returned only if its context was cancelled or expired,
\* and then with the context's error.
C4_ReturnsOnlyOnCancel ==
  \A c \in Runners :
    pc[c] = "returned" =>
      /\ ctx[c] \in {Canceled, DeadlineExceeded}
      /\ result[c] = ctx[c]

\* C4 witness: the loop is back at its top with a live context after a handler
\* error and an acknowledgment failure in the batch it just processed.
C4_Witness ==
  \E c \in Runners :
    /\ CycleDone(c)
    /\ ctx[c] = Nil
    /\ \E k \in 1..Len(hist[c]) : hist[c][k].kind = "handler" /\ hist[c][k].err # Nil
    /\ \E k \in 1..Len(hist[c]) : hist[c][k].kind = "ack" /\ hist[c][k].err # Nil

\* The step appends a handler invocation to c's history.
HandlerInvoked(c) ==
  /\ Len(hist'[c]) = Len(hist[c]) + 1
  /\ hist'[c][Len(hist'[c])].kind = "handler"

\* C5 as stated: once the context is cancelled, no step of ConsumeStream hands
\* an entry to the handler, the rest of the batch being dispatched included.
C5_Original ==
  [][\A c \in Runners : ctx[c] # Nil => ~HandlerInvoked(c)]_vars

\* C5 amended: from its first top-of-loop check after the cancellation on,
\* ConsumeStream hands no entry to the handler, starts no read and returns the
\* context's error; the entries of the batch being dispatched (or read) when
\* the signal fires still reach the handler.
C5_NoHandlerAfterCheck ==
  [][\A c \in Runners :
       (ctx[c] # Nil /\ pc[c] = "select") =>
         /\ ~HandlerInvoked(c)
         /\ pc'[c] \in {"select", "returned"}
         /\ (pc'[c] = "returned") => (result'[c] = ctx[c])]_vars

\* C5 witness: ConsumeStream returned the cancellation error after the handler
\* had been invoked in its last batch.
C5_Witness ==
  \E c \in Runners :
    /\ pc[c] = "returned"
    /\ result[c] = Canceled
    /\ \E k \in 1..Len(hist[c]) : hist[c][k].kind = "handler"

\* C6: when every broker call and handler invocation returns, a cancelled or
\* expired context leads to ConsumeStream returning that context's error.
C6_EventuallyReturns ==
  \A c \in Runners : \A cause \in {Canceled, DeadlineExceeded} :
    (ctx[c] = cause) ~> (pc[c] = "returned" /\ result[c] = cause)

\* C6 witness: ConsumeStream returned DeadlineExceeded from a call that had
\* read a batch.
C6_Witness ==
  \E c \in Runners :
    /\ pc[c] = "returned"
    /\ result[c] = DeadlineExceeded
    /\ batch[c] # <<>>

\* C7: CreateConsumerGroup on a group that already exists, whenever the broker
\* answers the call, returns no error and leaves the group's delivery cursor
\* and pending list (and every other group) as they were.
C7_IdempotentRegistration ==
  /\ []((/\ ret.op = "CreateConsumerGroup"
          /\ ret.existed
          /\ ret.reply # TransportError) => ret.err = Nil)
  /\ [][\A c \in Consumers :
          (/\ CreateConsumerGroup(c)
           /\ UNCHANGED <<streams, lastID, self, libVars, invoked, pipe, reclaim, loopVars>>
           /\ groups[<<self[c].streamName, self[c].groupName>>].exists)
            => groups' = groups]_vars

\* C7 witness: CreateConsumerGroup has just returned nil for a group that
\* existed, had delivered entries and holds a pending one.
C7_Witness ==
  /\ ret.op = "CreateConsumerGroup"
  /\ ret.existed
  /\ ret.reply = BusyGroupReply
  /\ ret.err = Nil
  /\ groups[<<ret.stream, ret.group>>].last > 0
  /\ groups[<<ret.stream, ret.group>>].pel # <<>>

\* C8: PublishEvent with an empty stream name or a nil event returns an error,
\* issues no broker command and leaves every stream as it was.
C8_PreconditionNoBrokerCall ==
  /\ []((/\ ret.op = "PublishEvent"
          /\ (ret.stream = "" \/ ret.event = NilEvent))
           => (ret.returned.err # Nil /\ ret.cmds = <<>>))
  /\ [][(/\ ret' # ret
         /\ ret'.op = "PublishEvent"
         /\ (ret'.stream = "" \/ ret'.event = NilEvent))
          => UNCHANGED <<streams, lastID, groups>>]_vars

\* C8 witness: PublishEvent has just rejected a nil event for a stream that
\* holds an entry.
C8_Witness ==
  /\ ret.op = "PublishEvent"
  /\ ret.event = NilEvent
  /\ ret.stream \in StreamNames
  /\ streams[ret.stream] # <<>>
  /\ ret.returned.err = "event cannot be nil"

\* C9 as stated: after a successful PublishEvent the named stream, and no
\* other, ends with an entry at the broker's newest position carrying the
\* serialized event, and the caller is handed that position.
C9_Original ==
  (ret.op = "PublishEvent" /\ ret.returned.err = Nil) =>
    /\ streams[ret.stream] # <<>>
    /\ streams[ret.stream][Len(streams[ret.stream])] =
         [ID |-> lastID, Values |-> [event |-> Marshal(ret.event).data]]
    /\ \A k \in Keys \ {ret.stream} : lastID \notin EntryIDs(k)
    /\ "messageID" \in DOMAIN ret.returned
    /\ ret.returned.messageID = lastID

\* C10 as stated: whatever the input and the broker's outcome, PublishBatch on
\* a named stream returns as many positions as entries were appended; an empty
\* batch returns an empty list and no error.
C10_Original ==
  (ret.op = "PublishBatch" /\ ret.stream # "") =>
    /\ Len(ret.messageIDs) = Cardinality(ret.appended)
    /\ (ret.given = 0) => (ret.messageIDs = <<>> /\ ret.err = Nil)

\* C11: when the broker fails one XADD of a PublishBatch pipeline, the call
\* returns an error, and the sibling commands are not aborted: the broker has
\* run every queued command by the time the call returns, and each one it did
\* not fail appended its entry, with the serialized event, to the stream at the
\* step it ran, whatever the replies before it.
C11_ItemErrorSurfacedSiblingsKept ==
  /\ []((/\ ret.op = "PublishBatch"
         /\ \E i \in 1..Len(ret.replies) : ret.replies[i].err # Nil) =>
          /\ ret.err # Nil
          /\ Len(ret.replies) = Len(ret.queued))
  /\ [][(/\ Len(pipe'.replies) = Len(pipe.replies) + 1
         /\ pipe'.replies[Len(pipe'.replies)].err = Nil) =>
          streams' = [streams EXCEPT ![pipe.stream] =
            Append(@, [ID |-> pipe'.replies[Len(pipe'.replies)].val,
                       Values |-> pipe.queued[Len(pipe'.replies)]])]]_vars

\* C11 witness: a three-command pipeline whose second XADD failed, with an entry
\* of another client between the two entries it appended; the call returned
\* the error.
C11_Witness ==
  /\ ret.op = "PublishBatch"
  /\ Len(ret.replies) = 3
  /\ ret.replies[1].err = Nil
  /\ ret.replies[2].err # Nil
  /\ ret.replies[3].err = Nil
  /\ ret.err # Nil
  /\ ret.replies[3].val = ret.replies[1].val + 2
  /\ {ret.replies[1].val, ret.replies[3].val} \subseteq EntryIDs(ret.stream)

\* The pending list of the group consumer c was constructed with.
OwnPel(c) == groups[AckTarget(c)].pel

\* The consumer that owns entry id in pending list pel, "none" when the entry
\* is not pending.
OwnerIn(pel, id) ==
  IF \E i \in 1..Len(pel) : pel[i].ID = id
  THEN pel[CHOOSE i \in 1..Len(pel) : pel[i].ID = id].consumer
  ELSE "none"

\* The idle time of pending entry id in pel.
IdleIn(pel, id) == pel[CHOOSE i \in 1..Len(pel) : pel[i].ID = id].idle

MessageIDs(msgs) == {msgs[i].ID : i \in 1..Len(msgs)}

\* ConsumeStream of c was handed entry id by its last read and has not yet
\* finished with it (handler and ack included).
InHand(c, id) ==
  /\ pc[c] \in {"process", "ack"}
  /\ \E i \in idx[c]..Len(batch[c]) : batch[c][i].ID = id

\* C12 as stated: a pending entry is never in the hands of two consumer
\* identities at once, one still dispatching it from its read, the other
\* having received it from a reclaim call.
C12_Original ==
  \A c \in Consumers, d \in Consumers, id \in 1..MaxEntries :
    (c # d /\ id \in PendingIDs(groups, "s1", "g1")) =>
      ~(InHand(c, id) /\ id \in MessageIDs(reclaim[d].claimed))

\* C12 amended: every pending entry has exactly one owner in the group's
\* pending list.  A read hands out only entries never delivered to the group
\* and makes the reader their owner; afterwards the owner changes only when a
\* ClaimStaleMessages call claims the entry, idle for at least its min_idle,
\* for the caller -- whether or not the previous owner is still dispatching
\* it -- and ends only with an acknowledgment.
C12_OwnershipExclusive ==
  /\ [](\A c \in Consumers : Cardinality(MessageIDs(OwnPel(c))) = Len(OwnPel(c)))
  /\ [][\A id \in 1..MaxEntries :
         LET old == OwnerIn(groups[<<"s1", "g1">>].pel, id)
             new == OwnerIn(groups'[<<"s1", "g1">>].pel, id)
         IN (new # old) =>
              \/ /\ old = "none"
                 /\ id > groups[<<"s1", "g1">>].last
                 /\ new \in Consumers
                 /\ \/ pc[new] = "read" /\ id \in MessageIDs(batch'[new])
                    \/ /\ ret'.op = "ReadMessages" /\ ret'.consumer = new
                       /\ id \in MessageIDs(ret'.messages)
              \/ /\ new = "none"
                 /\ \E c \in Consumers :
                      /\ pc[c] = "ack"
                      /\ batch[c][idx[c]].ID = id
                      /\ hist'[c] # hist[c]
              \/ /\ old \in Consumers
                 /\ new \in Consumers
                 /\ reclaim[new].pc = "claim"
                 /\ reclaim[new].pending[reclaim[new].idx].ID = id
                 /\ IdleIn(groups[<<"s1", "g1">>].pel, id) >= reclaim[new].minIdle
                 /\ id \in MessageIDs(reclaim'[new].claimed)]_vars

\* C12 witness: the reclaiming consumer owns a pending entry it claimed while
\* the consumer that read it is between the handler's return and the ack.
C12_Witness ==
  \E id \in PendingIDs(groups, "s1", "g1") :
    /\ pc["c1"] = "ack"
    /\ batch["c1"][idx["c1"]].ID = id
    /\ OwnerIn(groups[<<"s1", "g1">>].pel, id) = "c2"
    /\ id \in MessageIDs(reclaim["c2"].claimed)

\* Consumer c is inside ConsumeStream on the stream and group it was
\* constructed with.
Polling(c) ==
  /\ pc[c] \notin {"idle", "returned"}
  /\ <<args[c].streamName, args[c].groupName>> = AckTarget(c)

\* C13 as stated: an entry appended to a stream, with a group registered on
\* the stream and a consumer of the group polling, is eventually delivered to
\* that consumer and handed to its handler, for each of the groups.
C13_Original ==
  \A c \in Consumers : \A id \in 1..MaxEntries :
    (/\ id \in EntryIDs(self[c].streamName)
     /\ groups[AckTarget(c)].exists
     /\ Polling(c))
      ~> (<<self[c].streamName, self[c].groupName, id>> \in invoked)

\* The entry with the given ID in pending list pel.
PelEntry(pel, id) == pel[CHOOSE i \in 1..Len(pel) : pel[i].ID = id]

\* The IDs the step adds to the entries c's ClaimStaleMessages hands back.
NewlyClaimed(c) ==
  MessageIDs(reclaim'[c].claimed) \ MessageIDs(reclaim[c].claimed)

\* The step is an iteration of c's range loop.  Below-threshold part of C14:
\* it claims no pending entry that is idle for less than min_idle and leaves
\* the owner and idle time of every such entry as they were.
BelowThresholdUntouched(c) ==
  \A i \in 1..Len(OwnPel(c)) :
    OwnPel(c)[i].idle < reclaim[c].minIdle =>
      /\ OwnPel(c)[i].ID \notin NewlyClaimed(c)
      /\ groups'[AckTarget(c)].pel[i] = OwnPel(c)[i]

\* The entry the iteration is about now belongs to c with idle time 0 and is
\* among the entries the call hands back.
Transferred(c) ==
  LET id == reclaim[c].pending[reclaim[c].idx].ID
      pel == groups'[AckTarget(c)].pel
  IN /\ id \in MessageIDs(pel)
     /\ PelEntry(pel, id).consumer = self[c].consumerName
     /\ PelEntry(pel, id).idle = 0
     /\ id \in MessageIDs(reclaim'[c].claimed)

\* C14 as stated: no iteration touches an entry idle for less than min_idle,
\* and every listed entry whose listed idle time is at least min_idle is
\* transferred to the caller, idle time reset, and handed back.
C14_Original ==
  [][\A c \in Reclaimers :
       ClaimStaleStep(c) =>
         /\ BelowThresholdUntouched(c)
         /\ (reclaim[c].pending[reclaim[c].idx].idle >= reclaim[c].minIdle)
              => Transferred(c)]_vars

\* C14 amended: no iteration touches an entry idle for less than min_idle;
\* a listed entry whose idle time is at least min_idle is transferred to the
\* caller, idle time reset, and handed back when, at the time of its claim,
\* it is still pending and still idle for at least min_idle, and the broker
\* executes the XClaim.
C14_ClaimThreshold ==
  [][\A c \in Reclaimers :
       /\ ClaimStaleStep(c) => BelowThresholdUntouched(c)
       /\ (/\ ClaimStaleStepWith(c, "ok")
           /\ reclaim[c].pending[reclaim[c].idx].idle >= reclaim[c].minIdle
           /\ reclaim[c].pending[reclaim[c].idx].ID \in MessageIDs(OwnPel(c))
           /\ PelEntry(OwnPel(c), reclaim[c].pending[reclaim[c].idx].ID).idle
                >= reclaim[c].minIdle)
            => Transferred(c)]_vars

\* C14 witness: a call with min_idle 1 has returned one claimed entry, now
\* owned by the caller with idle time 0, while the other pending entry, idle
\* for less than that, still belongs to the consumer that read it.
C14_Witness ==
  \E c \in Reclaimers :
    /\ reclaim[c].pc = "returned"
    /\ Len(reclaim[c].claimed) = 1
    /\ Len(OwnPel(c)) = 2
    /\ \E i, j \in 1..2 :
         /\ OwnPel(c)[i].ID = reclaim[c].claimed[1].ID
         /\ OwnPel(c)[i].consumer = c
         /\ OwnPel(c)[i].deliveries = 2
         /\ OwnPel(c)[j].consumer # c
         /\ OwnPel(c)[j].idle = 0
         /\ OwnPel(c)[j].deliveries = 1

\* C15 as stated: an entry a reclaim call has just claimed (owned through a
\* claim, no time passed since) is not claimed again by a reclaim call, so
\* that one call transfers an entry that has become stale.
C15_Original ==
  [][\A c \in Consumers : \A id \in NewlyClaimed(c) :
       ~(/\ PelEntry(OwnPel(c), id).deliveries >= 2
         /\ PelEntry(OwnPel(c), id).idle = 0)]_vars

\* C15 amended: a reclaim call claims an entry only if, at the claim, the
\* entry has been idle for at least the call's threshold since its last
\* delivery or claim, and the claim makes the caller the entry's owner with
\* idle time 0.  So with a threshold above zero a re-run does not claim a
\* freshly claimed entry again until it has sat idle for the threshold once
\* more; with threshold 0 no entry is fresh.
C15_ReclaimOncePerStaleness ==
  [][\A c \in Consumers : \A id \in NewlyClaimed(c) :
       /\ PelEntry(OwnPel(c), id).idle >= reclaim[c].minIdle
       /\ PelEntry(groups'[AckTarget(c)].pel, id).idle = 0
       /\ PelEntry(groups'[AckTarget(c)].pel, id).consumer = self[c].consumerName]_vars

\* C15 witness: two calls with threshold 1 listed the same stale entry; one
\* has claimed it, and the other, about to issue its claim, finds it owned by
\* the first with idle time 0.
C15_Witness ==
  \E c \in Consumers, d \in Consumers :
    /\ c # d
    /\ reclaim[c].pc = "returned"
    /\ Len(reclaim[c].claimed) = 1
    /\ reclaim[d].pc = "claim"
    /\ reclaim[d].minIdle = 1
    /\ reclaim[d].pending[reclaim[d].idx].ID = reclaim[c].claimed[1].ID
    /\ reclaim[d].pending[reclaim[d].idx].idle >= 1
    /\ reclaim[c].claimed[1].ID \in MessageIDs(OwnPel(c))
    /\ PelEntry(OwnPel(c), reclaim[c].claimed[1].ID).consumer = c
    /\ PelEntry(OwnPel(c), reclaim[c].claimed[1].ID).idle = 0

\* C16: an iteration of the reclaim loop whose XClaim fails leaves the pending
\* list alone, keeps the entries claimed so far and goes on to the next
\* listed entry (or returns them) without an error; no iteration sets an
\* error; a call returns an error only when listing the pending entries
\* failed, and then it returns no entries.
C16_ClaimFailureSkipped ==
  /\ [](\A c \in Reclaimers :
         (reclaim[c].pc = "returned" /\ reclaim[c].err # Nil) =>
           /\ reclaim[c].err = "failed to get pending messages"
           /\ reclaim[c].claimed = <<>>)
  /\ [][\A c \in Reclaimers :
         /\ ClaimStaleStep(c) =>
              /\ reclaim'[c].err = Nil
              /\ SubSeq(reclaim'[c].claimed, 1, Len(reclaim[c].claimed))
                   = reclaim[c].claimed
              /\ IF reclaim[c].idx = Len(reclaim[c].pending)
                 THEN reclaim'[c].pc = "returned"
                 ELSE /\ reclaim'[c].pc = "claim"
                      /\ reclaim'[c].idx = reclaim[c].idx + 1
         /\ (/\ ClaimStaleStepWith(c, "fail")
             /\ IsStale(reclaim[c].pending[reclaim[c].idx].idle,
                        reclaim[c].minIdle)) =>
              /\ groups' = groups
              /\ reclaim'[c].claimed = reclaim[c].claimed]_vars

\* C16 witness: a call has returned without error the second entry it
\* claimed, while the first entry, listed before it and idle for longer,
\* still belongs to the consumer that read it: its claim failed and was
\* skipped.
C16_Witness ==
  \E c \in Reclaimers :
    /\ reclaim[c].pc = "returned"
    /\ reclaim[c].err = Nil
    /\ MessageIDs(reclaim[c].claimed) = {2}
    /\ 1 \in MessageIDs(OwnPel(c))
    /\ PelEntry(OwnPel(c), 1).consumer # self[c].consumerName
    /\ PelEntry(OwnPel(c), 2).consumer = self[c].consumerName

\* The group consumer c was constructed for.
OwnGroup(c) == <<self[c].streamName, self[c].groupName>>

\* C17: a group's pending list holds each ID once and only IDs the group has
\* delivered; an ID enters it only in a ReadMessages that delivers it, and
\* every delivered message enters it, owned by the reader; an ID leaves it
\* only in an AcknowledgeMessage of that ID that returns nil (time passing
\* removes nothing); an iteration of the reclaim loop keeps the IDs and
\* changes no entry but the one it claims, which gets the caller as owner and
\* idle time 0; and after AcknowledgeMessage(id) returns nil, id is not
\* pending in the consumer's group.
C17_PendingList ==
  /\ [](\A sg \in DOMAIN groups :
         /\ Cardinality(PendingIDs(groups, sg[1], sg[2])) = Len(groups[sg].pel)
         /\ \A id \in PendingIDs(groups, sg[1], sg[2]) : id <= groups[sg].last)
  /\ [][/\ \A sg \in DOMAIN groups :
            LET entered == PendingIDs(groups', sg[1], sg[2]) \ PendingIDs(groups, sg[1], sg[2])
                left    == PendingIDs(groups, sg[1], sg[2]) \ PendingIDs(groups', sg[1], sg[2])
            IN /\ entered # {} =>
                    \E c \in Consumers :
                      /\ ReadMessages(c, MaxBatchSize)
                      /\ sg = OwnGroup(c)
                      /\ ret'.err = Nil
                      /\ entered = MessageIDs(ret'.messages)
               /\ left # {} =>
                    \E c \in Consumers, id \in 1..MaxEntries :
                      /\ AcknowledgeMessage(c, id)
                      /\ sg = OwnGroup(c)
                      /\ ret'.err = Nil
                      /\ left = {id}
        /\ \A c \in Consumers :
            /\ ReadMessages(c, MaxBatchSize) =>
                 \A id \in MessageIDs(ret'.messages) :
                   /\ id \in PendingIDs(groups', OwnGroup(c)[1], OwnGroup(c)[2])
                   /\ PelEntry(groups'[OwnGroup(c)].pel, id).consumer
                        = self[c].consumerName
            /\ \A id \in 1..MaxEntries :
                 (AcknowledgeMessage(c, id) /\ ret'.err = Nil) =>
                   id \notin PendingIDs(groups', OwnGroup(c)[1], OwnGroup(c)[2])
            /\ ClaimStaleStep(c) =>
                 \A sg \in DOMAIN groups :
                   /\ Len(groups'[sg].pel) = Len(groups[sg].pel)
                   /\ \A i \in 1..Len(groups[sg].pel) :
                        /\ groups'[sg].pel[i].ID = groups[sg].pel[i].ID
                        /\ groups'[sg].pel[i] # groups[sg].pel[i] =>
                             /\ sg = OwnGroup(c)
                             /\ groups[sg].pel[i].ID
                                  = reclaim[c].pending[reclaim[c].idx].ID
                             /\ groups'[sg].pel[i].consumer
                                  = self[c].consumerName
                             /\ groups'[sg].pel[i].idle = 0]_vars

\* C17 witness: both entries were delivered to c1; entry 1 was acknowledged
\* (the call returned nil) and is gone; entry 2 was reclaimed by c2, time has
\* passed since, and it is still pending.
C17_Witness ==
  /\ ret.op = "AcknowledgeMessage"
  /\ ret.err = Nil
  /\ ret.ID = 1
  /\ groups[<<"s1", "g1">>].last = 2
  /\ PendingIDs(groups, "s1", "g1") = {2}
  /\ PelEntry(groups[<<"s1", "g1">>].pel, 2).consumer = "c2"
  /\ PelEntry(groups[<<"s1", "g1">>].pel, 2).deliveries = 2
  /\ PelEntry(groups[<<"s1", "g1">>].pel, 2).idle >= 1

\* The serialized payload a call of the guard measured: the marshaled value
\* for MarshalPayload, the input for the others.
Serialized(r) ==
  IF r.op = "MarshalPayload" THEN JsonMarshal(r.payload).data ELSE r.payload

\* The call r is one whose outcome the size of the serialized payload
\* decides: a value that marshals, a payload handed to ValidatePayloadSize,
\* a non-empty JSON text handed to a conversion.
SizeDecides(r) ==
  \/ r.op = "MarshalPayload" /\ r.payload # GoNil
       /\ JsonMarshal(r.payload).err = Nil
  \/ r.op = "ValidatePayloadSize"
  \/ r.op \in {"ConvertStringToRawMessage", "ConvertBytesToRawMessage"}
       /\ ByteLen(r.payload) > 0 /\ ValidJSON(r.payload)

\* C18: a serialized payload of at most MaxPayloadSize bytes, one of exactly
\* MaxPayloadSize bytes included, is accepted, and a longer one, one of
\* MaxPayloadSize + 1 bytes included, is rejected with a PayloadError of
\* Operation "validation" whose message carries its byte length.
C18_SizeBoundary ==
  SizeDecides(ret) =>
    /\ ByteLen(Serialized(ret)) <= 16384 =>
         /\ ret.err = NoError
         /\ ret.op # "ValidatePayloadSize" => ret.data = Serialized(ret)
    /\ ByteLen(Serialized(ret)) >= 16385 =>
         /\ ret.err # NoError
         /\ ret.err.Operation = "validation"
         /\ ret.err.Err[2] = ByteLen(Serialized(ret))

\* C18 witness: MarshalPayload has returned a marshaled payload of exactly
\* MaxPayloadSize bytes.
C18_Witness ==
  /\ ret.op = "MarshalPayload"
  /\ ret.err = NoError
  /\ ret.payload.t = "string"
  /\ ByteLen(ret.data) = MaxPayloadSize

\* The call r was handed an input whose byte length (for MarshalPayload: whose
\* marshaled length) exceeds MaxPayloadSize.
Oversized(r) ==
  /\ r.op \in {"MarshalPayload", "ValidatePayloadSize",
               "ConvertStringToRawMessage", "ConvertBytesToRawMessage"}
  /\ r.op = "MarshalPayload" =>
       (r.payload # GoNil /\ JsonMarshal(r.payload).err = Nil)
  /\ ByteLen(Serialized(r)) > MaxPayloadSize

\* C19 as stated: every entry path of the guard rejects an input longer than
\* MaxPayloadSize with a PayloadError whose Operation is "validation".
C19_Original ==
  Oversized(ret) => (ret.err # NoError /\ ret.err.Operation = "validation")

\* C20 as stated: UnmarshalPayload returns a PayloadError of Operation
\* "unmarshal" on empty and on malformed input, and whenever it returns an
\* error the target is as it was before the call.
C20_Original ==
  ret.op = "UnmarshalPayload" =>
    /\ (ByteLen(ret.payload) = 0 \/ ~ValidJSON(ret.payload)) =>
         (ret.err # NoError /\ ret.err.Operation = "unmarshal")
    /\ ret.err # NoError => ret.target = ret.before

\* C26: a WithRetry call with maxRetries >= 1 invokes fn at most maxRetries
\* times, every invocation before the last one made has failed, a successful
\* invocation ends the call, and the call returns nil when its last
\* invocation succeeded and an error exactly when it made maxRetries
\* invocations and all of them failed.
C26_WithRetry ==
  (retry.pc # "idle" /\ retry.maxRetries >= 1) =>
    LET n == Len(retry.calls)
        succeeded == n > 0 /\ retry.calls[n] = Nil
        allFailed == n = retry.maxRetries
                       /\ \A k \in 1..n : retry.calls[k] # Nil
    IN /\ n <= retry.maxRetries
       /\ \A k \in 1..(n - 1) : retry.calls[k] # Nil
       /\ succeeded => retry.pc = "returned"
       /\ retry.pc = "returned" =>
            /\ succeeded \/ allFailed
            /\ succeeded <=> Len(retry.result) = 0
            /\ allFailed <=> Len(retry.result) > 0
            /\ allFailed => retry.result[3] = retry.calls[n]

\* C26 witness: WithRetry(3, ..) has returned nil after two failed
\* invocations and a third that succeeded.
C26_Witness ==
  /\ retry.pc = "returned"
  /\ retry.maxRetries = 3
  /\ Len(retry.calls) = 3
  /\ retry.calls[1] # Nil /\ retry.calls[2] # Nil /\ retry.calls[3] = Nil
  /\ Len(retry.result) = 0

\* C21: for every string the switch has no case for, NormalizeEventType
\* returns the string itself and false.
C21_UnmatchedIdentity ==
  (ret.op = "NormalizeEventType" /\ ret.s \notin RegisteredAliases) =>
    (ret.type = ret.s /\ ~ret.found)

\* C21 witness: NormalizeEventType("unknown.event.type") has returned
\* ("unknown.event.type", false).
C21_Witness ==
  /\ ret.op = "NormalizeEventType"
  /\ ret.s = "unknown.event.type"
  /\ ret.type = "unknown.event.type"
  /\ ~ret.found

\* C22 as stated: when the string returned for a known input is normalized
\* again, the same string comes back with found = true.
C22_Original ==
  (/\ ret.op = "NormalizeEventType"
   /\ Len(ret.prev) > 0
   /\ ret.prev[2]) =>
    (ret.type = ret.s /\ ret.found)

\* C23 as stated: NormalizeEventType agrees with the table the tests assert
\* on every input the table lists.
C23_Original ==
  ret.op = "NormalizeEventType" =>
    \A row \in ReferenceTable :
      row[1] = ret.s => (ret.type = row[2] /\ ret.found = row[3])

\* The codes that share their canonical type with another code.
SharesType(code) ==
  \E other \in Codes : other # code /\ CodeToCE[other] = CodeToCE[code]

\* C24: every registered code has a canonical type; looking that type up in
\* the inverse table succeeds and returns a registered code of the same
\* canonical type, and returns the code itself when no other code shares its
\* type.
C24_RoundTrip ==
  /\ (ret.op = "GetCETypeForCode" /\ ret.code \in Codes) =>
       (ret.ok /\ ret.v = CodeToCE[ret.code])
  /\ (/\ ret.op = "GetCodeForCEType"
      /\ Len(ret.prev) > 0
      /\ ret.prev[1] \in Codes) =>
       /\ ret.ok
       /\ ret.v \in Codes
       /\ CodeToCE[ret.v] = CodeToCE[ret.prev[1]]
       /\ ~SharesType(ret.prev[1]) => ret.v = ret.prev[1]

\* C24 witness: the round trip of "03D_PA_API_ENRICHMENT_ORCHESTRATION_COMPLETED"
\* has returned the other code of the same canonical type.
C24_Witness ==
  /\ ret.op = "GetCodeForCEType"
  /\ Len(ret.prev) > 0
  /\ ret.prev[1] = "03D_PA_API_ENRICHMENT_ORCHESTRATION_COMPLETED"
  /\ ret.ok
  /\ ret.v = "03B_PA_API_ENRICHMENT_ORCHESTRATION_ENRICHED"

\* The position in consumer c's batch of the entry with the given ID.
BatchPos(c, id) == CHOOSE i \in DOMAIN batch[c] : batch[c][i].ID = id

\* C25: within a delivered batch the handler and ack events follow the
\* delivery order: every event is about an entry of the batch, events about
\* different entries are in the order of the batch, an entry has at most one
\* handler event, and a handler success is followed by the ack of the same
\* entry before any event of a later entry (or the loop is at that ack).
C25_DeliveryOrder ==
  \A c \in Consumers :
    Len(batch[c]) > 0 =>
      LET h == hist[c] IN
      /\ \A i \in DOMAIN h : \E j \in DOMAIN batch[c] : batch[c][j].ID = h[i].ID
      /\ \A i, j \in DOMAIN h :
           i < j =>
             \/ BatchPos(c, h[i].ID) < BatchPos(c, h[j].ID)
             \/ /\ h[i].ID = h[j].ID
                /\ h[i].kind = "handler"
                /\ h[j].kind = "ack"
                /\ j = i + 1
      /\ \A i \in DOMAIN h :
           (h[i].kind = "handler" /\ h[i].err = Nil) =>
             IF i = Len(h)
             THEN pc[c] = "ack" /\ batch[c][idx[c]].ID = h[i].ID
             ELSE h[i + 1].kind = "ack" /\ h[i + 1].ID = h[i].ID
      /\ \A i \in DOMAIN h :
           BatchPos(c, h[i].ID) <= idx[c]

\* C25 witness: in a batch of two entries the handler succeeded on the first,
\* its ack was issued, and the handler has then run on the second.
C25_Witness ==
  \E c \in Consumers :
    /\ Len(batch[c]) = 2
    /\ Len(hist[c]) = 3
    /\ hist[c][1].kind = "handler" /\ hist[c][1].ID = batch[c][1].ID
    /\ hist[c][1].err = Nil
    /\ hist[c][2].kind = "ack" /\ hist[c][2].ID = batch[c][1].ID
    /\ hist[c][3].kind = "handler" /\ hist[c][3].ID = batch[c][2].ID

\* The stream and group the running ConsumeStream call of c reads.
ReadGroup(c) == <<args[c].streamName, args[c].groupName>>

\* C27: an ack issued by ConsumeStream changes no group but the one the
\* consumer was constructed with, whatever stream and group the call reads;
\* there it removes the entry when the broker accepts it; and the entry
\* leaves the pending list of the group it was read from exactly when the
\* broker accepts the ack and that group is the constructed one.
C27_AckTargetsConstructed ==
  [][\A c \in Consumers :
       AckMessage(c) =>
         LET id == batch[c][idx[c]].ID
             own == OwnGroup(c)
             read == ReadGroup(c)
             accepted == hist'[c][Len(hist'[c])].err = Nil
         IN /\ \A sg \in DOMAIN groups : sg # own => groups'[sg] = groups[sg]
            /\ groups'[own] = IF accepted
                              THEN XAck(groups, own[1], own[2], id)[own]
                              ELSE groups[own]
            /\ id \in PendingIDs(groups, read[1], read[2])
            /\ id \notin PendingIDs(groups', read[1], read[2])
                 <=> (accepted /\ read = own)]_vars

\* C27 witness: a call that reads a group other than the constructed one has
\* handled an entry and the broker accepted its ack; the entry is still
\* pending in the group it was read from.
C27_Witness ==
  \E c \in Consumers :
    /\ ReadGroup(c) # OwnGroup(c)
    /\ Len(hist[c]) >= 2
    /\ hist[c][2].kind = "ack"
    /\ hist[c][2].err = Nil
    /\ hist[c][2].ID = batch[c][1].ID
    /\ hist[c][2].ID \in ReadPending(c)

\* C28: a read of ConsumeStream delivers only entries above the group's
\* last-delivered ID, none of them pending in the group; and the handler is
\* called on an entry only if no ConsumeStream loop has called it before on
\* that entry for that group, and only on an entry of the batch just read.
C28_HandlerOncePerEntry ==
  [][\A c \in Consumers :
       /\ ReadBatch(c) =>
            \A i \in DOMAIN batch'[c] :
              /\ batch'[c][i].ID > groups[ReadGroup(c)].last
              /\ batch'[c][i].ID \notin ReadPending(c)
       /\ (ProcessMessage(c) /\ Len(hist'[c]) > Len(hist[c])) =>
            /\ <<args[c].streamName, args[c].groupName, batch[c][idx[c]].ID>>
                 \notin invoked
            /\ invoked' = invoked \cup
                 {<<args[c].streamName, args[c].groupName,
                    batch[c][idx[c]].ID>>}]_vars

\* C28 witness: the handler failed on entry 1, which is still pending; both
\* consumers of the group have read since, the other consumer has handled
\* entry 2, and the handler was called on entry 1 that one time only.
C28_Witness ==
  /\ Len(hist["c1"]) = 1
  /\ hist["c1"][1] = [kind |-> "handler", ID |-> 1, err |-> "handler failed"]
  /\ 1 \in PendingIDs(groups, "s1", "g1")
  /\ Len(hist["c2"]) >= 1
  /\ hist["c2"][1].kind = "handler" /\ hist["c2"][1].ID = 2
  /\ pc["c1"] = "read"
  /\ invoked = {<<"s1", "g1", 1>>, <<"s1", "g1", 2>>}

\* The entries consumer c's ClaimStaleMessages call has collected or returned.
ClaimedIDs(r) == MessageIDs(r.claimed)

\* C29 as stated: when a ClaimStaleMessages call returns, every entry it
\* returns is in the pending list of the caller's group, owned by the caller.
C29_Original ==
  [][\A c \in Consumers :
       (reclaim[c].pc = "claim" /\ reclaim'[c].pc = "returned") =>
         \A id \in ClaimedIDs(reclaim'[c]) :
           /\ id \in PendingIDs(groups', OwnGroup(c)[1], OwnGroup(c)[2])
           /\ PelEntry(groups'[OwnGroup(c)].pel, id).consumer
                = self[c].consumerName]_vars

\* C29 amended: a step of a ClaimStaleMessages call calls no handler and
\* leaves the IDs and the length of every group's pending list as they were;
\* and an entry the step adds to the call's result is, after the step, in the
\* pending list of the caller's group and owned by the caller.
C29_ClaimKeepsPending ==
  [][\A c \in Consumers :
       reclaim'[c] # reclaim[c] =>
         /\ invoked' = invoked
         /\ hist' = hist
         /\ \A sg \in DOMAIN groups :
              /\ Len(groups'[sg].pel) = Len(groups[sg].pel)
              /\ PendingIDs(groups', sg[1], sg[2])
                   = PendingIDs(groups, sg[1], sg[2])
         /\ reclaim[c].pc = "claim" =>
              \A id \in ClaimedIDs(reclaim'[c]) \ ClaimedIDs(reclaim[c]) :
                /\ id \in PendingIDs(groups', OwnGroup(c)[1], OwnGroup(c)[2])
                /\ PelEntry(groups'[OwnGroup(c)].pel, id).consumer
                     = self[c].consumerName]_vars

\* C29 witness: a call has returned a claimed entry that the other consumer
\* had read; the entry is still pending, owned by the caller after its second
\* delivery.
C29_Witness ==
  \E c \in Reclaimers :
    /\ reclaim[c].pc = "returned"
    /\ ClaimedIDs(reclaim[c]) = {1}
    /\ 1 \in PendingIDs(groups, OwnGroup(c)[1], OwnGroup(c)[2])
    /\ PelEntry(groups[OwnGroup(c)].pel, 1).consumer = self[c].consumerName
    /\ PelEntry(groups[OwnGroup(c)].pel, 1).deliveries = 2
    /\ \E d \in Readers : Len(batch[d]) > 0 /\ batch[d][1].ID = 1

\* The IDs of the entries a ClaimStaleMessages call listed, in listed order.
ListedIDs(r) == [i \in 1..Len(r.pending) |-> r.pending[i].ID]

\* C30: the entries a ClaimStaleMessages(min_idle, max_count) call lists are
\* the first max_count entries of the group's pending list, at most max_count
\* of them, and every pending entry it does not list has a higher ID; an
\* iteration of the call changes no pending entry but the listed one it is
\* at; and the call returns at most max_count entries, all of them listed.
C30_ClaimWindow ==
  /\ [](\A c \in Consumers :
          reclaim[c].pc = "claim" =>
            /\ Len(reclaim[c].pending) <= reclaim[c].count
            /\ Len(reclaim[c].claimed) <= reclaim[c].idx - 1
            /\ ClaimedIDs(reclaim[c])
                 \subseteq {reclaim[c].pending[i].ID : i \in 1..(reclaim[c].idx - 1)})
  /\ [][\A c \in Consumers :
          LET own == groups[OwnGroup(c)].pel
              r == reclaim[c]
          IN /\ (r.pc # "claim" /\ reclaim'[c].pc = "claim") =>
                  /\ ListedIDs(reclaim'[c])
                       = [i \in 1..Len(Take(own, reclaim'[c].count)) |-> own[i].ID]
                  /\ \A j \in 1..Len(own) :
                       j > Len(reclaim'[c].pending) =>
                         \A i \in 1..Len(reclaim'[c].pending) :
                           own[j].ID > reclaim'[c].pending[i].ID
             /\ (r.pc = "claim" /\ reclaim'[c] # r) =>
                  /\ \A sg \in DOMAIN groups :
                       /\ Len(groups'[sg].pel) = Len(groups[sg].pel)
                       /\ \A i \in 1..Len(groups[sg].pel) :
                            groups'[sg].pel[i] # groups[sg].pel[i] =>
                              /\ sg = OwnGroup(c)
                              /\ groups[sg].pel[i].ID = r.pending[r.idx].ID
                  /\ reclaim'[c].pc = "returned" =>
                       /\ Len(reclaim'[c].claimed) <= r.count
                       /\ ClaimedIDs(reclaim'[c])
                            \subseteq {r.pending[i].ID : i \in 1..Len(r.pending)}]_vars

\* C30 witness: two entries were pending, both idle for the longest time; a
\* call has returned the first one and the second, outside the call's window
\* of one entry, still belongs to its reader with its idle time.
C30_Witness ==
  \E c \in Reclaimers :
    /\ reclaim[c].pc = "returned"
    /\ ClaimedIDs(reclaim[c]) = {1}
    /\ Len(groups[OwnGroup(c)].pel) = 2
    /\ groups[OwnGroup(c)].pel[1].consumer = self[c].consumerName
    /\ groups[OwnGroup(c)].pel[1].idle = 0
    /\ groups[OwnGroup(c)].pel[2].consumer # self[c].consumerName
    /\ groups[OwnGroup(c)].pel[2].idle = MaxIdle
    /\ groups[OwnGroup(c)].pel[2].deliveries = 1

====
